---- MODULE Spec2Model ----
(***************************************************************************)
(* A model of the function-calling test harness:                           *)
(*   - OpenRouterClient.call_with_functions and its file cache             *)
(*     (src/src/openrouter_client.py),                                     *)
(*   - OpenRouterClient.test_natural_language_understanding and            *)
(*     _evaluate_test_case / _validate_arguments,                          *)
(*   - run_tests_for_function with snapshots (src/tests/test_runner.py),   *)
(*   - FunctionRegister (src/src/function_register.py).                    *)
(*                                                                         *)
(* Python strings that the code inspects character by character are        *)
(* sequences of one-character strings; strings the code only compares are  *)
(* TLA+ strings.  MD5 is taken to be collision free on the modelled        *)
(* inputs: a digest is the triple it was computed from.                    *)
(***************************************************************************)
EXTENDS Integers, Sequences, FiniteSets, TLC

VARIABLES
    model,          \* OpenRouterClient.model of the client object under observation
    lru,            \* memo table of the lru_cache around _get_cache_key
    cache,          \* cache directory: the cache files, each [key, file]
    provider_calls, \* number of chat.completions.create invocations so far
    hist,           \* the call_with_functions calls made on the client, with their results
    snapshots,      \* snapshots directory: the files snapshots/<function>/<index>.json
    registry,       \* the FunctionRegister: its tables _functions and _schemas
    reg_log,        \* the last operation called on the FunctionRegister and its outcome
    run,            \* run_tests_for_function: the frame of the current run
    exec_log,       \* registry.execute invocations of the current run: <<test_index, name>>
    nlu,            \* test_natural_language_understanding: the frame of the current run
    match_log,      \* the _validate_arguments call made by a direct caller, with its verdict
    peer            \* a second process in run_tests_for_function: its snapshot check

vars == <<model, lru, cache, provider_calls, hist, snapshots, registry, reg_log, run, exec_log,
          nlu, match_log, peer>>

----------------------------------------------------------------------------
(* Bounds of the model *)

MaxCalls == 2       \* call_with_functions calls explored on the observed client
MaxRuns == 2        \* sequential run_tests_for_function runs explored
MaxTests == 2       \* test cases per run
MaxOps == 3         \* operations called on the FunctionRegister

----------------------------------------------------------------------------
(* Small helpers *)

Range(s) == {s[i] : i \in 1..Len(s)}

None == "None"

----------------------------------------------------------------------------
(* JSON values of tool-call arguments.                                     *)
(* A scalar or list value is [t, s, l, n]: t is the Python type, s the     *)
(* characters of a str, l the items of a list (each a value), n an int.    *)

StrV(cs) == [t |-> "str", s |-> cs, l |-> << >>, n |-> 0]
IntV(k) == [t |-> "int", s |-> << >>, l |-> << >>, n |-> k]
ListV(items) == [t |-> "list", s |-> << >>, l |-> items, n |-> 0]

(* An arguments value is [t, d]: a dict (d maps its keys to values), None  *)
(* (json.loads("null")) or a non-zero JSON number.                         *)
DictA(d) == [t |-> "dict", d |-> d]
NullA == [t |-> "null", d |-> << >>]
NumA == [t |-> "number", d |-> << >>]
EmptyDict == DictA(<< >>)

Minsk == <<"M", "i">>
MINSK == <<"M", "I">>
Paris == <<"P", "a">>

ArgsMinsk == DictA([k \in {"city"} |-> StrV(Minsk)])
ArgsMINSK == DictA([k \in {"city"} |-> StrV(MINSK)])
ArgsParis == DictA([k \in {"city"} |-> StrV(Paris)])

----------------------------------------------------------------------------
(* Python str operations on character sequences *)

LowerMap == [c \in {"A", "B", "I", "M", "P"} |->
               CASE c = "A" -> "a" [] c = "B" -> "b" [] c = "I" -> "i"
                 [] c = "M" -> "m" [] c = "P" -> "p"]

\* str.lower()
Lower(cs) == [i \in 1..Len(cs) |-> IF cs[i] \in DOMAIN LowerMap THEN LowerMap[cs[i]] ELSE cs[i]]

Whitespace == {" "}

\* str.strip()
RECURSIVE LStrip(_)
LStrip(cs) == IF cs # << >> /\ Head(cs) \in Whitespace THEN LStrip(Tail(cs)) ELSE cs

RECURSIVE RStrip(_)
RStrip(cs) ==
    IF cs # << >> /\ cs[Len(cs)] \in Whitespace THEN RStrip(SubSeq(cs, 1, Len(cs) - 1)) ELSE cs

Strip(cs) == RStrip(LStrip(cs))

\* ',' in s
HasComma(cs) == \E i \in 1..Len(cs) : cs[i] = ","

\* s.split(','): the pieces between commas, in order (always at least one piece)
RECURSIVE SplitFrom(_, _)
SplitFrom(cs, piece) ==
    IF cs = << >> THEN <<piece>>
    ELSE IF Head(cs) = "," THEN <<piece>> \o SplitFrom(Tail(cs), << >>)
    ELSE SplitFrom(Tail(cs), Append(piece, Head(cs)))

Split(cs) == SplitFrom(cs, << >>)

\* set(item.strip() for item in s.split(','))
StripItems(cs) == {Strip(p) : p \in Range(Split(cs))}

Digit == [d \in 0..9 |-> CASE d = 0 -> "0" [] d = 1 -> "1" [] d = 2 -> "2" [] d = 3 -> "3"
                           [] d = 4 -> "4" [] d = 5 -> "5" [] d = 6 -> "6" [] d = 7 -> "7"
                           [] d = 8 -> "8" [] d = 9 -> "9"]

\* str(n) for an int
RECURSIVE IntStr(_)
IntStr(k) == IF k < 0 THEN <<"-">> \o IntStr(0 - k)
             ELSE IF k < 10 THEN <<Digit[k]>>
             ELSE IntStr(k \div 10) \o <<Digit[k % 10]>>

\* repr(item) of a list item: a str in single quotes, an int as str(n)
Repr(v) == IF v.t = "str" THEN <<"'">> \o v.s \o <<"'">> ELSE IntStr(v.n)

RECURSIVE JoinRepr(_)
JoinRepr(items) ==
    IF items = << >> THEN << >>
    ELSE IF Len(items) = 1 THEN Repr(items[1])
    ELSE Repr(items[1]) \o <<",", " ">> \o JoinRepr(Tail(items))

\* str(value)
Str(v) == CASE v.t = "str" -> v.s
            [] v.t = "int" -> IntStr(v.n)
            [] v.t = "list" -> <<"[">> \o JoinRepr(v.l) \o <<"]">>

----------------------------------------------------------------------------
(* OpenRouterClient._validate_arguments *)

\* not actual
Falsy(actual) == actual.t = "null" \/ (actual.t = "dict" /\ actual.d = << >>)

\* the per-key test with item sets compared for equality
KeyMatchesEqualItems(actual_value, expected_value) ==
    IF expected_value.t = "str" /\ HasComma(expected_value.s)
    THEN LET expected_items == StripItems(expected_value.s)
             actual_items ==
                 CASE actual_value.t = "str" -> StripItems(actual_value.s)
                   [] actual_value.t = "list" ->
                        {Strip(Str(actual_value.l[i])) : i \in 1..Len(actual_value.l)}
                   [] OTHER -> {Str(actual_value)}
         IN expected_items = actual_items
    ELSE IF expected_value.t = "list" /\ actual_value.t = "list"
    THEN Range(expected_value.l) = Range(actual_value.l)
    ELSE Lower(Str(actual_value)) = Lower(Str(expected_value))

\* the per-key test with lists compared as sequences
KeyMatchesOrdered(actual_value, expected_value) ==
    IF expected_value.t = "str" /\ HasComma(expected_value.s)
    THEN LET expected_items == StripItems(expected_value.s)
             actual_items ==
                 CASE actual_value.t = "str" -> StripItems(actual_value.s)
                   [] actual_value.t = "list" ->
                        {Strip(Str(actual_value.l[i])) : i \in 1..Len(actual_value.l)}
                   [] OTHER -> {Str(actual_value)}
         IN expected_items \subseteq actual_items
    ELSE IF expected_value.t = "list" /\ actual_value.t = "list"
    THEN expected_value.l = actual_value.l
    ELSE Lower(Str(actual_value)) = Lower(Str(expected_value))

\* the per-key test with scalars compared without lower()
KeyMatchesCaseSensitive(actual_value, expected_value) ==
    IF expected_value.t = "str" /\ HasComma(expected_value.s)
    THEN LET expected_items == StripItems(expected_value.s)
             actual_items ==
                 CASE actual_value.t = "str" -> StripItems(actual_value.s)
                   [] actual_value.t = "list" ->
                        {Strip(Str(actual_value.l[i])) : i \in 1..Len(actual_value.l)}
                   [] OTHER -> {Str(actual_value)}
         IN expected_items \subseteq actual_items
    ELSE IF expected_value.t = "list" /\ actual_value.t = "list"
    THEN Range(expected_value.l) = Range(actual_value.l)
    ELSE Str(actual_value) = Str(expected_value)

\* the per-key test of the partial-match loop, for a key present in actual
KeyMatches(actual_value, expected_value) ==
    IF expected_value.t = "str" /\ HasComma(expected_value.s)
    THEN LET expected_items == StripItems(expected_value.s)
             actual_items ==
                 CASE actual_value.t = "str" -> StripItems(actual_value.s)
                   [] actual_value.t = "list" ->
                        {Strip(Str(actual_value.l[i])) : i \in 1..Len(actual_value.l)}
                   [] OTHER -> {Str(actual_value)}
         IN expected_items \subseteq actual_items
    ELSE IF expected_value.t = "list" /\ actual_value.t = "list"
    THEN Range(expected_value.l) = Range(actual_value.l)
    ELSE Lower(Str(actual_value)) = Lower(Str(expected_value))

\* the order in which the keys of an expected mapping are visited
KeyOrder == <<"city", "days", "tags">>

FailingKeys(actual, expected) ==
    {i \in 1..Len(KeyOrder) :
        /\ KeyOrder[i] \in DOMAIN expected
        /\ \/ KeyOrder[i] \notin DOMAIN actual.d
           \/ ~KeyMatches(actual.d[KeyOrder[i]], expected[KeyOrder[i]])}

FirstFailing(actual, expected) ==
    KeyOrder[CHOOSE i \in FailingKeys(actual, expected) :
                \A j \in FailingKeys(actual, expected) : i <= j]

Verdict(valid, reason) == [valid |-> valid, reason |-> reason, raised |-> FALSE]

\* `key not in actual` on a number raises TypeError
TypeError == [valid |-> FALSE, reason |-> None, raised |-> TRUE]

\* returns [valid, reason, raised]; reason is the kind of the message
validate_arguments_accept_all(actual, expected, partial_match) == Verdict(TRUE, None)

validate_arguments(actual, expected, partial_match) ==
    IF Falsy(actual) THEN Verdict(FALSE, "no_arguments")
    ELSE IF partial_match
    THEN IF DOMAIN expected = {} THEN Verdict(TRUE, None)
         ELSE IF actual.t # "dict" THEN TypeError
         ELSE IF FailingKeys(actual, expected) = {} THEN Verdict(TRUE, None)
         ELSE IF FirstFailing(actual, expected) \notin DOMAIN actual.d
         THEN Verdict(FALSE, "missing_parameter")
         ELSE Verdict(FALSE, "parameter_mismatch")
    ELSE IF actual.t # "dict" \/ actual.d # expected THEN Verdict(FALSE, "full_mismatch")
    ELSE Verdict(TRUE, None)

----------------------------------------------------------------------------
(* Function descriptors and json.dumps(function_schemas, sort_keys=True).  *)
(* A Python dict is the sequence of its <<key, value>> items in insertion  *)
(* order; two dicts are equal when they hold the same items in any order.  *)

KeyRank == [k \in {"description", "name", "parameters"} |->
              CASE k = "description" -> 1 [] k = "name" -> 2 [] k = "parameters" -> 3]

DescF == <<<<"name", "f">>, <<"description", "df">>, <<"parameters", "pf">>>>
DescFReordered == <<<<"description", "df">>, <<"name", "f">>, <<"parameters", "pf">>>>
DescG == <<<<"name", "g">>, <<"description", "dg">>, <<"parameters", "pg">>>>

\* dict == dict
DictEq(a, b) == Range(a) = Range(b)

\* list == list for lists of dicts
ListEq(xs, ys) == Len(xs) = Len(ys) /\ \A i \in 1..Len(xs) : DictEq(xs[i], ys[i])

\* ys is a reordering of the list xs
IsPermutation(xs, ys) ==
    /\ Len(xs) = Len(ys)
    /\ \E p \in [1..Len(xs) -> 1..Len(xs)] :
          /\ \A i, j \in 1..Len(xs) : i # j => p[i] # p[j]
          /\ \A i \in 1..Len(xs) : DictEq(xs[i], ys[p[i]])

\* the items of one dict in the order json.dumps writes them
SortKeysUnsorted(d) == d

SortKeys(d) ==
    LET at(r) == CHOOSE i \in 1..Len(d) : Cardinality({j \in 1..Len(d) :
                                              KeyRank[d[j][1]] < KeyRank[d[i][1]]}) = r - 1
    IN [r \in 1..Len(d) |-> d[at(r)]]

\* json.dumps(function_schemas, sort_keys=True): the list keeps its order,
\* every dict is written with its keys sorted
Dumps(function_schemas) ==
    [i \in 1..Len(function_schemas) |-> SortKeys(function_schemas[i])]

\* hashlib.md5(f"{user_query}::{schemas_str}::{model}").hexdigest()
Digest(user_query, schemas_str, m) == <<user_query, schemas_str, m>>

\* _get_cache_key under functools.lru_cache: a memoised (user_query, schemas_str)
\* returns the key computed when it was first seen, else the key is computed
\* from the client's current model
get_cache_key(memo, user_query, schemas_str, m) ==
    IF \E e \in memo : e.q = user_query /\ e.s = schemas_str
    THEN (CHOOSE e \in memo : e.q = user_query /\ e.s = schemas_str).k
    ELSE Digest(user_query, schemas_str, m)

\* the memo table after the lookup (maxsize=100 is never reached by the modelled inputs)
lru_after(memo, user_query, schemas_str, m) ==
    IF \E e \in memo : e.q = user_query /\ e.s = schemas_str THEN memo
    ELSE memo \cup {[q |-> user_query, s |-> schemas_str,
                     k |-> Digest(user_query, schemas_str, m)]}

----------------------------------------------------------------------------
(* The provider capability chat.completions.create: it raises, or returns  *)
(* a message with a creation time, a content and tool-call records.  The   *)
(* argument payload of a record is JSON text: valid says whether           *)
(* json.loads accepts it, val is what it parses to.                        *)

Payload(a) == [valid |-> TRUE, val |-> a]
BadPayload == [valid |-> FALSE, val |-> NullA]

ToolCall(id, type, name, payload) ==
    [id |-> id, type |-> type, name |-> name, arguments |-> payload]

Raises == [ok |-> FALSE, created |-> 0, content |-> None, tool_calls |-> << >>]
Message(created, content, tool_calls) ==
    [ok |-> TRUE, created |-> created, content |-> content, tool_calls |-> tool_calls]

\* A directory is the set of its files, each [key, file]: key is what the
\* file name is made of, file the content.  A path without a file is Absent.
Absent == [kind |-> "absent"]

\* os.path.exists(path) and the content read from it
FileAt(dir, key) ==
    IF \E e \in dir : e.key = key THEN (CHOOSE e \in dir : e.key = key).file ELSE Absent

\* open(path, "w") and json.dump: the file is created or replaced
Written(dir, key, file) == {e \in dir : e.key # key} \cup {[key |-> key, file |-> file]}

\* json.dump(result, f) and json.load(f): the result holds only str keys,
\* str, int, None, list and dict values, which the round trip preserves
JsonDump(result) == [kind |-> "file", json |-> result]
JsonLoad(file) == file.json

\* lines 124-138: the parsed tool_calls list (only records of type "function")
RECURSIVE ParseToolCalls(_)
ParseToolCalls(records) ==
    IF records = << >> THEN << >>
    ELSE IF Head(records).type = "function"
    THEN <<[id |-> Head(records).id, type |-> Head(records).type,
            name |-> Head(records).name, arguments |-> Head(records).arguments.val]>>
         \o ParseToolCalls(Tail(records))
    ELSE ParseToolCalls(Tail(records))

\* json.loads raises on some record of type "function"
LoadsRaises(records) ==
    \E i \in 1..Len(records) : records[i].type = "function" /\ ~records[i].arguments.valid

NoFunctionCall == [name |-> None, arguments |-> NullA]

\* lines 114-145 with the alias taken from the last parsed tool call
BuildResultLastCall(user_query, m, message) ==
    LET tool_calls == ParseToolCalls(message.tool_calls)
    IN [kind |-> "ok", user_query |-> user_query, model |-> m,
        timestamp |-> message.created, content |-> message.content,
        has_tool_calls |-> message.tool_calls # << >>,
        tool_calls |-> tool_calls,
        has_function_call |-> tool_calls # << >>,
        function_call |-> IF tool_calls # << >>
                          THEN [name |-> tool_calls[Len(tool_calls)].name,
                                arguments |-> tool_calls[Len(tool_calls)].arguments]
                          ELSE NoFunctionCall]

\* lines 114-145: the result built from a provider message
BuildResult(user_query, m, message) ==
    LET tool_calls == ParseToolCalls(message.tool_calls)
    IN [kind |-> "ok", user_query |-> user_query, model |-> m,
        timestamp |-> message.created, content |-> message.content,
        has_tool_calls |-> message.tool_calls # << >>,
        tool_calls |-> tool_calls,
        has_function_call |-> tool_calls # << >>,
        function_call |-> IF tool_calls # << >>
                          THEN [name |-> tool_calls[1].name,
                                arguments |-> tool_calls[1].arguments]
                          ELSE NoFunctionCall]

\* lines 155-160: the error result
ErrorResultAsEmptyMessage(user_query, function_schemas, error) ==
    BuildResult(user_query, None, Message(0, None, << >>))

ErrorResult(user_query, function_schemas, error) ==
    [kind |-> "error", error |-> error, user_query |-> user_query,
     functions_called |-> [i \in 1..Len(function_schemas) |->
        (CHOOSE item \in Range(function_schemas[i]) : item[1] = "name")[2]]]

\* lines 147-151: the cache file is written (created or replaced)
StoreArtifactSkipped(c, key, result) == c

StoreArtifact(c, key, result) == Written(c, key, JsonDump(result))

\* a client whose except branch also writes the error result to the cache file
call_with_functions_caching_errors(memo, m, c, user_query, function_schemas, use_cache, outcome) ==
    LET schemas_str == Dumps(function_schemas)
        cache_key == get_cache_key(memo, user_query, schemas_str, m)
        memo2 == lru_after(memo, user_query, schemas_str, m)
        failure == ErrorResult(user_query, function_schemas,
                               IF ~outcome.ok THEN "provider" ELSE "json")
    IN IF use_cache /\ FileAt(c, cache_key) # Absent
       THEN [result |-> JsonLoad(FileAt(c, cache_key)), cache |-> c, lru |-> memo2,
             key |-> cache_key, hit |-> TRUE, invoked |-> FALSE]
       ELSE IF ~outcome.ok \/ LoadsRaises(outcome.tool_calls)
       THEN [result |-> failure, cache |-> StoreArtifact(c, cache_key, failure),
             lru |-> memo2, key |-> cache_key, hit |-> FALSE, invoked |-> TRUE]
       ELSE LET result == BuildResult(user_query, m, outcome)
            IN [result |-> result, cache |-> StoreArtifact(c, cache_key, result),
                lru |-> memo2, key |-> cache_key, hit |-> FALSE, invoked |-> TRUE]

\* OpenRouterClient.call_with_functions on a client with memo table memo and
\* model m, cache directory c; outcome is what the provider does if invoked.
\* Returns the result with the new cache and memo, the key used, whether the
\* cache answered (hit) and whether the provider was invoked.
call_with_functions(memo, m, c, user_query, function_schemas, use_cache, outcome) ==
    LET schemas_str == Dumps(function_schemas)
        cache_key == get_cache_key(memo, user_query, schemas_str, m)
        memo2 == lru_after(memo, user_query, schemas_str, m)
    IN IF use_cache /\ FileAt(c, cache_key) # Absent
       THEN [result |-> JsonLoad(FileAt(c, cache_key)), cache |-> c, lru |-> memo2,
             key |-> cache_key, hit |-> TRUE, invoked |-> FALSE]
       ELSE IF ~outcome.ok
       THEN [result |-> ErrorResult(user_query, function_schemas, "provider"),
             cache |-> c, lru |-> memo2, key |-> cache_key, hit |-> FALSE, invoked |-> TRUE]
       ELSE IF LoadsRaises(outcome.tool_calls)
       THEN [result |-> ErrorResult(user_query, function_schemas, "json"),
             cache |-> c, lru |-> memo2, key |-> cache_key, hit |-> FALSE, invoked |-> TRUE]
       ELSE LET result == BuildResult(user_query, m, outcome)
            IN [result |-> result, cache |-> StoreArtifact(c, cache_key, result),
                lru |-> memo2, key |-> cache_key, hit |-> FALSE, invoked |-> TRUE]

----------------------------------------------------------------------------
(* Test cases, test results and the frames of the two test loops *)

TestCase(query, expected_function, expected_arguments, partial_match, expect_no_function) ==
    [query |-> query, expected_function |-> expected_function,
     expected_arguments |-> expected_arguments, partial_match |-> partial_match,
     expect_no_function |-> expect_no_function]

\* a test_result dict; a key the code has not set is None (NullA for arguments)
NewTestResult(test_index, test_case) ==
    [test_index |-> test_index, query |-> test_case.query,
     expected_function |-> test_case.expected_function,
     expected_arguments |-> test_case.expected_arguments,
     status |-> None, reason |-> None, error |-> None,
     actual_function |-> None, actual_arguments |-> NullA,
     execution_result |-> None, snapshot_status |-> None]

\* the frame of run_tests_for_function: pc is the position in the loop body,
\* i the number of finished iterations, cur the test_result being built,
\* response and loaded what call_with_functions and load_snapshot returned,
\* n the number of runs started so far
NoRun ==
    [pc |-> "idle", n |-> 0, function_name |-> None, model |-> None, lru |-> {},
     total |-> 0, i |-> 0, passed |-> 0, failed |-> 0, errors |-> 0,
     details |-> << >>, test_cases |-> << >>,
     cur |-> NewTestResult(0, TestCase(None, None, << >>, TRUE, FALSE)),
     response |-> Absent, loaded |-> Absent]

\* the frame of test_natural_language_understanding
NoNlu ==
    [pc |-> "idle", total |-> 0, i |-> 0, passed |-> 0, failed |-> 0, errors |-> 0,
     details |-> << >>, test_cases |-> << >>, function_stats |-> << >>]

----------------------------------------------------------------------------
(* FunctionRegister: callables, descriptors and the two tables.            *)
(* A descriptor (schema) is a Python dict: a function from its keys.  The  *)
(* value of "parameters" and of "enum" is tagged with its Python type.     *)

\* a callable: its __name__, the number of parameters of its signature, the
\* annotation of the first one, its __module__ and what it returns
Weather == [id |-> "weather", name |-> "f", nparams |-> 1, annotation |-> "dict",
            module |-> "functions.weather", result |-> "result"]
Forecast == [id |-> "forecast", name |-> "g", nparams |-> 1, annotation |-> "empty",
             module |-> "functions.forecast", result |-> "result2"]
TwoArguments == [id |-> "two", name |-> "f", nparams |-> 2, annotation |-> "dict",
                 module |-> "functions.weather", result |-> "result"]
NoArguments == [id |-> "none", name |-> "g", nparams |-> 0, annotation |-> "empty",
                module |-> "functions.forecast", result |-> "result2"]
TakesDict == [id |-> "takes_Dict", name |-> "g", nparams |-> 1, annotation |-> "Dict",
              module |-> "functions.forecast", result |-> "result2"]
TakesStr == [id |-> "takes_str", name |-> "g", nparams |-> 1, annotation |-> "str",
             module |-> "functions.forecast", result |-> "result2"]
TakesList == [id |-> "takes_list", name |-> "g", nparams |-> 1, annotation |-> "ListOfDict",
              module |-> "functions.forecast", result |-> "result2"]

\* str(param.annotation) of the annotations dict, Dict[str, Any], str and
\* List[Dict[str, Any]]
AnnotationStr ==
    [a \in {"dict", "Dict", "str", "ListOfDict"} |->
       CASE a = "dict" ->
        <<"<", "c", "l", "a", "s", "s", " ", "'", "d", "i", "c", "t", "'", ">">>
         [] a = "Dict" ->
        <<"t", "y", "p", "i", "n", "g", ".", "D", "i", "c", "t", "[", "s", "t", "r", ",", " ",
          "t", "y", "p", "i", "n", "g", ".", "A", "n", "y", "]">>
         [] a = "str" ->
        <<"<", "c", "l", "a", "s", "s", " ", "'", "s", "t", "r", "'", ">">>
         [] a = "ListOfDict" ->
        <<"t", "y", "p", "i", "n", "g", ".", "L", "i", "s", "t", "[", "t", "y", "p", "i", "n",
          "g", ".", "D", "i", "c", "t", "[", "s", "t", "r", ",", " ", "t", "y", "p", "i", "n",
          "g", ".", "A", "n", "y", "]", "]">>]

\* sub in s, for two str
Contains(s, sub) ==
    \E i \in 0..(Len(s) - Len(sub)) : \A j \in 1..Len(sub) : s[i + j] = sub[j]

StrA == [t |-> "str", d |-> << >>]
ListT == [t |-> "list"]
StrT == [t |-> "str"]

GoodProperty == [type |-> "string", description |-> "a city"]
EnumProperty == [type |-> "string", description |-> "units", enum |-> ListT]

Parameters(properties) == DictA([type |-> "object", properties |-> properties])

SchemaOf(name, description, properties) ==
    [name |-> name, description |-> description, parameters |-> Parameters(properties)]

SchemaF == SchemaOf("f", "df", [city |-> GoodProperty])
SchemaF2 == SchemaOf("f", "df2", [city |-> GoodProperty, units |-> EnumProperty])
SchemaG == SchemaOf("g", "dg", [city |-> GoodProperty])

\* descriptors with one defect each
NoName == [description |-> "df", parameters |-> Parameters([city |-> GoodProperty])]
NoDescription == [name |-> "f", parameters |-> Parameters([city |-> GoodProperty])]
NoParameters == [name |-> "f", description |-> "df"]
ParametersNotDict == [name |-> "f", description |-> "df", parameters |-> StrA]
ParametersArray ==
    [name |-> "f", description |-> "df",
     parameters |-> DictA([type |-> "array", properties |-> [city |-> GoodProperty]])]
NoProperties == [name |-> "f", description |-> "df", parameters |-> DictA([type |-> "object"])]
PropertyNoType == SchemaOf("f", "df", [city |-> [description |-> "a city"]])
PropertyNoDescription == SchemaOf("f", "df", [city |-> [type |-> "string"]])
EnumNotList ==
    SchemaOf("f", "df", [city |-> [type |-> "string", description |-> "a city",
                                   enum |-> StrT]])

\* _validate_function_signature raises
SignatureRaises(func) ==
    \/ func.nparams # 1
    \/ /\ func.annotation # "empty"
       /\ ~Contains(AnnotationStr[func.annotation], <<"D", "i", "c", "t">>)
       /\ ~Contains(AnnotationStr[func.annotation], <<"d", "i", "c", "t">>)

\* function_validators.validate_schema raises (lines 16-43)
validate_schema_raises(schema, func_name) ==
    \/ \E field \in {"name", "description", "parameters"} : field \notin DOMAIN schema
    \/ schema.name # func_name
    \/ schema.parameters.t # "dict"
    \/ "type" \notin DOMAIN schema.parameters.d
    \/ schema.parameters.d.type # "object"
    \/ "properties" \notin DOMAIN schema.parameters.d
    \/ \E prop_name \in DOMAIN schema.parameters.d.properties :
          LET prop_def == schema.parameters.d.properties[prop_name]
          IN \/ "type" \notin DOMAIN prop_def
             \/ "description" \notin DOMAIN prop_def
             \/ "enum" \in DOMAIN prop_def /\ prop_def.enum.t # "list"

\* FunctionRegister._validate_schema raises (lines 159-181)
SchemaRaisesNameUnchecked(schema, func_name) ==
    \/ \E field \in {"name", "description", "parameters"} : field \notin DOMAIN schema
    \/ schema.parameters.t # "dict"
    \/ "type" \notin DOMAIN schema.parameters.d
    \/ schema.parameters.d.type # "object"
    \/ "properties" \notin DOMAIN schema.parameters.d

SchemaRaises(schema, func_name) ==
    \/ \E field \in {"name", "description", "parameters"} : field \notin DOMAIN schema
    \/ schema.name # func_name
    \/ schema.parameters.t # "dict"
    \/ "type" \notin DOMAIN schema.parameters.d
    \/ schema.parameters.d.type # "object"
    \/ "properties" \notin DOMAIN schema.parameters.d

\* dict[key] = value
Put(table, key, value) ==
    [k \in DOMAIN table \cup {key} |-> IF k = key THEN value ELSE table[k]]

\* FunctionInfo(name, func, schema, description, module)
FunctionInfo(name, func, schema, description) ==
    [name |-> name, func |-> func, schema |-> schema, description |-> description,
     module |-> func.module]

\* FunctionRegister.register_function: [raised, registry, value]; None for
\* name or description is the default of the parameter
register_function_keeps_first(reg, function, schema, name, description) ==
    LET func_name == IF name # None THEN name ELSE function.name
    IN IF SignatureRaises(function) \/ SchemaRaises(schema, func_name)
       THEN [raised |-> TRUE, registry |-> reg, value |-> "ValueError"]
       ELSE IF func_name \in DOMAIN reg.functions
       THEN [raised |-> FALSE, value |-> func_name, registry |-> reg]
       ELSE [raised |-> FALSE, value |-> func_name,
             registry |->
                [functions |-> Put(reg.functions, func_name,
                                   FunctionInfo(func_name, function, schema,
                                       IF description # None THEN description
                                       ELSE schema.description)),
                 schemas |-> Put(reg.schemas, func_name, schema)]]

\* a registration that stores the callable before it validates the descriptor
register_function_stores_early(reg, function, schema, name, description) ==
    LET func_name == IF name # None THEN name ELSE function.name
        stored == Put(reg.functions, func_name,
                      FunctionInfo(func_name, function, schema,
                                   IF description # None THEN description ELSE ""))
    IN IF SignatureRaises(function)
       THEN [raised |-> TRUE, registry |-> reg, value |-> "ValueError"]
       ELSE IF SchemaRaises(schema, func_name)
       THEN [raised |-> TRUE, value |-> "ValueError",
             registry |-> [functions |-> stored, schemas |-> reg.schemas]]
       ELSE [raised |-> FALSE, value |-> func_name,
             registry |-> [functions |-> stored,
                           schemas |-> Put(reg.schemas, func_name, schema)]]

register_function(reg, function, schema, name, description) ==
    LET func_name == IF name # None THEN name ELSE function.name
    IN IF SignatureRaises(function) \/ SchemaRaises(schema, func_name)
       THEN [raised |-> TRUE, registry |-> reg, value |-> "ValueError"]
       ELSE [raised |-> FALSE, value |-> func_name,
             registry |->
                [functions |-> Put(reg.functions, func_name,
                                   FunctionInfo(func_name, function, schema,
                                       IF description # None THEN description
                                       ELSE schema.description)),
                 schemas |-> Put(reg.schemas, func_name, schema)]]

\* FunctionRegister.get_function and get_schema: [raised, value]
get_function(reg, name) ==
    IF name \notin DOMAIN reg.functions THEN [raised |-> TRUE, value |-> "KeyError"]
    ELSE [raised |-> FALSE, value |-> reg.functions[name].func]

get_schema(reg, name) ==
    IF name \notin DOMAIN reg.schemas THEN [raised |-> TRUE, value |-> "KeyError"]
    ELSE [raised |-> FALSE, value |-> reg.schemas[name]]

\* FunctionRegister(): both tables are empty
EmptyRegistry == [functions |-> << >>, schemas |-> << >>]

\* the registry after the module of the function under test was imported
InitRegistry == register_function(EmptyRegistry, Weather, SchemaF, None, None).registry

\* the second process has not reached the snapshot check of its test case
NoPeer == [pc |-> "idle", function |-> None, test_index |-> 0, arguments |-> NullA,
           loaded |-> Absent, snapshot_status |-> None]

\* no _validate_arguments call was observed yet
NoMatch == [called |-> FALSE]

\* no operation was called on the registry yet
NoOperation == [n |-> 0, op |-> None, name |-> None, raised |-> FALSE, value |-> None]

----------------------------------------------------------------------------
(* Inputs *)

Queries == {"q1", "q2"}
ClientQueries == {"q1"}
Models == {"m1", "m2"}
Names == {"f", "g"}

\* descriptor lists handed to call_with_functions by a direct caller
ClientSchemaLists == {<<DescF, DescG>>, <<DescFReordered, DescG>>, <<DescG, DescF>>}

\* the registered descriptor of a name (FunctionRegister._schemas)
Schema(name) == IF name = "f" THEN DescF ELSE DescG

\* what the provider may do when a direct caller's request reaches it
ClientOutcomes ==
    {Raises,
     Message(1, "text", << >>),
     Message(2, None, <<ToolCall("c1", "function", "f", Payload(ArgsMinsk))>>),
     Message(1, None, <<ToolCall("c1", "function", "f", BadPayload)>>),
     Message(1, None, <<ToolCall("c1", "retrieval", "g", Payload(ArgsParis))>>),
     Message(2, None, <<ToolCall("c1", "function", "g", Payload(ArgsParis)),
                        ToolCall("c2", "function", "f", Payload(ArgsMinsk))>>)}


Init ==
    /\ model = "m1"
    /\ lru = {}
    /\ cache = {}
    /\ provider_calls = 0
    /\ hist = << >>
    /\ snapshots = {}
    /\ registry = InitRegistry
    /\ reg_log = NoOperation
    /\ run = NoRun
    /\ exec_log = << >>
    /\ nlu = NoNlu
    /\ match_log = NoMatch
    /\ peer = NoPeer

----------------------------------------------------------------------------
(* A direct caller of the client (tests/test_operouter.py, the __main__    *)
(* block of openrouter_client.py)                                          *)

\* client.call_with_functions(user_query, function_schemas, use_cache, cache_dir)
ClientCall(user_query, function_schemas, use_cache, outcome) ==
    /\ Len(hist) < MaxCalls
    /\ LET r == call_with_functions(lru, model, cache, user_query, function_schemas,
                                    use_cache, outcome)
       IN /\ cache' = r.cache
          /\ lru' = r.lru
          /\ provider_calls' = provider_calls + (IF r.invoked THEN 1 ELSE 0)
          /\ hist' = Append(hist,
                 [q |-> user_query, fs |-> function_schemas, model |-> model,
                  use_cache |-> use_cache, key |-> r.key, hit |-> r.hit,
                  invoked |-> r.invoked, result |-> r.result])
    /\ UNCHANGED <<model, snapshots, registry, reg_log, run, exec_log, nlu, match_log, peer>>

\* client.model = m
SetModel(m) ==
    /\ Len(hist) < MaxCalls
    /\ m # model
    /\ model' = m
    /\ UNCHANGED <<lru, cache, provider_calls, hist, snapshots, registry, reg_log, run, exec_log,
                   nlu, match_log, peer>>

NextClient ==
    \/ \E q \in ClientQueries, fs \in ClientSchemaLists, uc \in BOOLEAN, o \in ClientOutcomes :
          ClientCall(q, fs, uc, o)
    \/ \E m \in Models : SetModel(m)

SpecClient == Init /\ [][NextClient]_vars

----------------------------------------------------------------------------
(* Claims about the cache of call_with_functions (SpecClient) *)

\* consecutive calls i, i+1 on the client with an equal (query, descriptor list,
\* model), both with use_cache=True, the first finding no cache file for its key
SameRequestTwice(i) ==
    /\ i \in 1..(Len(hist) - 1)
    /\ hist[i].q = hist[i + 1].q
    /\ ListEq(hist[i].fs, hist[i + 1].fs)
    /\ hist[i].model = hist[i + 1].model
    /\ hist[i].use_cache /\ hist[i + 1].use_cache
    /\ ~hist[i].hit

Invocations(i) == (IF hist[i].invoked THEN 1 ELSE 0) + (IF hist[i + 1].invoked THEN 1 ELSE 0)

\* C1 as stated: two consecutive identical requests with use_cache=True, the
\* first a cache miss, return identical results with exactly one provider
\* invocation, whatever the outcome of the first provider call.
C1_AnyOutcome ==
    \A i \in 1..(Len(hist) - 1) :
        SameRequestTwice(i) => /\ hist[i + 1].result = hist[i].result
                               /\ Invocations(i) = 1

\* C1 amended: when the first call's provider request and response
\* processing succeed, the second call returns an identical result from the
\* cache and the provider is invoked exactly once across the two calls; when
\* the first call ends in an error result, nothing was cached and the second
\* call invokes the provider again.
C1_CacheIdempotence ==
    \A i \in 1..(Len(hist) - 1) :
        SameRequestTwice(i) =>
            /\ hist[i].result.kind = "ok" =>
                  /\ hist[i + 1].result = hist[i].result
                  /\ hist[i + 1].hit
                  /\ Invocations(i) = 1
            /\ hist[i].result.kind = "error" =>
                  /\ ~hist[i + 1].hit
                  /\ Invocations(i) = 2

\* C1 witness: a miss that was computed and stored, then the same request
\* (its descriptor dicts built in another key order) answered from the cache
C1_Witness ==
    \E i \in 1..(Len(hist) - 1) :
        /\ SameRequestTwice(i)
        /\ hist[i].fs # hist[i + 1].fs
        /\ hist[i].result.kind = "ok"
        /\ hist[i].result.has_function_call
        /\ hist[i + 1].hit

\* C2 as stated: calls with the same query and model whose descriptor lists
\* are permutations of each other use the same cache key.
C2_OrderIndependentKey ==
    \A i, j \in 1..Len(hist) :
        (/\ hist[i].q = hist[j].q
         /\ hist[i].model = hist[j].model
         /\ IsPermutation(hist[i].fs, hist[j].fs))
        => hist[i].key = hist[j].key

----------------------------------------------------------------------------
(* FunctionRegister.execute and the registered callables *)

\* the callable registered under a name raises on these arguments
CallableRaises(name, arguments) == arguments = ArgsParis

\* func(arguments): one invocation of a callable
Invocation(func, arguments) == [func |-> func, arguments |-> arguments]

\* a lookup in the style of dict.get: a missing name gives None
execute_or_none(reg, function_name, arguments) ==
    IF function_name \notin DOMAIN reg.functions
    THEN [raised |-> FALSE, value |-> None, called |-> FALSE, invoked |-> << >>]
    ELSE [raised |-> CallableRaises(function_name, arguments),
          value |-> IF CallableRaises(function_name, arguments) THEN "callable raised"
                    ELSE reg.functions[function_name].func.result,
          called |-> TRUE,
          invoked |-> <<Invocation(reg.functions[function_name].func, arguments)>>]

\* registry.execute(function_name, arguments): "KeyError" when the name is not
\* registered, else what the callable does; invoked lists the calls it made
execute(reg, function_name, arguments) ==
    IF get_function(reg, function_name).raised
    THEN [raised |-> TRUE, value |-> "KeyError", called |-> FALSE, invoked |-> << >>]
    ELSE IF CallableRaises(function_name, arguments)
    THEN [raised |-> TRUE, value |-> "callable raised", called |-> TRUE,
          invoked |-> <<Invocation(get_function(reg, function_name).value, arguments)>>]
    ELSE [raised |-> FALSE, value |-> get_function(reg, function_name).value.result,
          called |-> TRUE,
          invoked |-> <<Invocation(get_function(reg, function_name).value, arguments)>>]

----------------------------------------------------------------------------
(* A caller of the FunctionRegister: the decorators and register_from_module *)
(* of function_register.py, and the test runners                            *)

Callables == {Weather, Forecast, TwoArguments}

RegSchemas ==
    {SchemaF, SchemaF2, SchemaG, NoName, NoDescription, NoParameters, ParametersNotDict,
     ParametersArray, NoProperties, PropertyNoType, PropertyNoDescription, EnumNotList}

\* the name argument of register_function: None is the default
RegNames == {None, "f", "g"}

Operation(op, name, r) ==
    [n |-> reg_log.n + 1, op |-> op, name |-> name, raised |-> r.raised, value |-> r.value]

\* the description argument of register_function: None is the default
RegDescriptions == {None, "d"}

\* registry.register_function(function, schema, name, description)
Register(function, schema, name, description) ==
    /\ reg_log.n < MaxOps
    /\ LET r == register_function(registry, function, schema, name, description)
       IN /\ registry' = r.registry
          /\ reg_log' = [n |-> reg_log.n + 1, op |-> "register_function",
                         name |-> IF name # None THEN name ELSE function.name,
                         raised |-> r.raised, value |-> r.value,
                         function |-> function, schema |-> schema]
    /\ UNCHANGED <<model, lru, cache, provider_calls, hist, snapshots, run, exec_log, nlu,
                   match_log, peer>>

\* registry.get_schema(name)
GetSchema(name) ==
    /\ reg_log.n < MaxOps
    /\ reg_log' = Operation("get_schema", name, get_schema(registry, name))
    /\ UNCHANGED <<model, lru, cache, provider_calls, hist, snapshots, registry, run, exec_log, nlu,
                   match_log, peer>>

\* registry.get_function(name)
GetFunction(name) ==
    /\ reg_log.n < MaxOps
    /\ reg_log' = Operation("get_function", name, get_function(registry, name))
    /\ UNCHANGED <<model, lru, cache, provider_calls, hist, snapshots, registry, run, exec_log, nlu,
                   match_log, peer>>

\* registry.execute(name, arguments)
ExecuteCall(name, arguments) ==
    /\ reg_log.n < MaxOps
    /\ LET r == execute(registry, name, arguments)
       IN reg_log' = [n |-> reg_log.n + 1, op |-> "execute", name |-> name,
                      raised |-> r.raised, value |-> r.value,
                      arguments |-> arguments, invoked |-> r.invoked]
    /\ UNCHANGED <<model, lru, cache, provider_calls, hist, snapshots, registry, run, exec_log, nlu,
                   match_log, peer>>

NextRegistry ==
    \/ \E function \in Callables, schema \in RegSchemas, name \in RegNames,
          description \in RegDescriptions :
          Register(function, schema, name, description)
    \/ \E name \in Names : GetSchema(name)
    \/ \E name \in Names : GetFunction(name)
    \/ \E name \in Names, arguments \in {ArgsMinsk, ArgsParis} : ExecuteCall(name, arguments)

SpecRegistry == Init /\ [][NextRegistry]_vars

(* The decorator @function(schema) applied to callables of every kind of   *)
(* signature: the name and the description are the defaults                *)

SignatureCallables ==
    {Weather, Forecast, TwoArguments, NoArguments, TakesDict, TakesStr, TakesList}

NextSignatures ==
    \/ \E function \in SignatureCallables, schema \in {SchemaF, SchemaG} :
          Register(function, schema, None, None)
    \/ \E name \in Names : GetFunction(name)

SpecSignatures == Init /\ [][NextSignatures]_vars

----------------------------------------------------------------------------
(* The _validate_arguments call of _evaluate_test_case (lines 315-319),    *)
(* observed on its own: the arguments of the provider's call against the   *)
(* expected_arguments and partial_match of the test case.  The method      *)
(* keeps no state, so one call is observed per behaviour.                  *)

\* the values a key of the mappings can hold
MatchValues ==
    [city |-> {StrV(Minsk), StrV(MINSK), StrV(Paris)},
     days |-> {IntV(3), StrV(<<"3">>)},
     tags |-> {StrV(<<"a", ",", " ", "b">>),
               StrV(<<"b", " ", ",", "a">>),
               StrV(<<"a", ",", "b", ",", "c">>),
               StrV(<<"a">>),
               StrV(<<"3", ",", "3">>),
               IntV(3),
               ListV(<<StrV(<<"a">>), StrV(<<"b">>)>>),
               ListV(<<StrV(<<"b">>), StrV(<<"a">>), StrV(<<"a">>)>>),
               ListV(<<StrV(<<" ", "a">>), StrV(<<"b">>), StrV(<<"c">>)>>),
               ListV(<<StrV(<<"a">>)>>)}]

\* the dicts over these keys
MatchMappings ==
    UNION {{d \in [ks -> UNION {MatchValues[k] : k \in DOMAIN MatchValues}] :
              \A k \in ks : d[k] \in MatchValues[k]} : ks \in SUBSET (DOMAIN MatchValues)}

\* json.loads of the arguments string: a dict, null or a number
MatchActuals == {DictA(d) : d \in MatchMappings} \cup {NullA, NumA}

\* validation = self._validate_arguments(actual_arguments, expected_arguments,
\*                                        partial_match=partial_match)
ValidateArguments(actual, expected, partial_match) ==
    /\ match_log' = [called |-> TRUE, actual |-> actual, expected |-> expected,
                     partial_match |-> partial_match,
                     validation |-> validate_arguments(actual, expected, partial_match)]
    /\ UNCHANGED <<model, lru, cache, provider_calls, hist, snapshots, registry, reg_log, run,
                   exec_log, nlu, peer>>

NextMatcher ==
    /\ match_log = NoMatch
    /\ \E actual \in MatchActuals, expected \in MatchMappings, partial_match \in BOOLEAN :
          ValidateArguments(actual, expected, partial_match)

SpecMatcher == Init /\ [][NextMatcher]_vars

----------------------------------------------------------------------------
(* run_tests_for_function of tests/test_runner.py *)

RunnerModels == {"m1"}

TestCases ==
    {TestCase("q1", "f", [k \in {"city"} |-> StrV(Minsk)], TRUE, FALSE),
     TestCase("q2", None, << >>, TRUE, TRUE)}

\* what the provider may do when a request of a test run reaches it
RunnerOutcomes ==
    {Raises,
     Message(1, "text", << >>),
     Message(1, None, <<ToolCall("c1", "function", "f", Payload(ArgsMinsk))>>),
     Message(1, None, <<ToolCall("c1", "function", "f", Payload(ArgsParis))>>),
     Message(1, None, <<ToolCall("c1", "function", "g", Payload(ArgsMinsk))>>)}

\* lines 61-92: a run starts; it returns None at once when function_name is
\* not registered, else a new client is created and the loop is entered
StartRun(function_name, m, total) ==
    /\ run.pc \in {"idle", "done", "aborted"}
    /\ run.n < MaxRuns
    /\ run' = IF function_name \notin DOMAIN registry.schemas
              THEN [NoRun EXCEPT !.pc = "aborted", !.n = run.n + 1,
                                 !.function_name = function_name]
              ELSE [NoRun EXCEPT !.pc = "loop", !.n = run.n + 1,
                                 !.function_name = function_name, !.model = m,
                                 !.total = total]
    /\ exec_log' = << >>
    /\ UNCHANGED <<model, lru, cache, provider_calls, hist, snapshots, registry, reg_log, nlu,
                   match_log, peer>>

\* results["details"].append(test_result) and the end of the loop body
Appended(frame, test_result) ==
    [frame EXCEPT !.details = Append(frame.details, test_result), !.i = frame.i + 1,
                  !.pc = "loop", !.cur = NoRun.cur, !.response = Absent,
                  !.loaded = Absent]

\* lines 139-150: the classification of a test case whose response holds a call
Classify(test_case, found) ==
    IF test_case.expected_function # None
       /\ found.actual_function # test_case.expected_function
    THEN [found EXCEPT !.status = "failed", !.reason = "function_mismatch"]
    ELSE [found EXCEPT !.status = "passed"]

\* lines 94-150: the next test case is sent to the provider (through the
\* cache) and classified from the response
Dispatch(test_case, outcome) ==
    /\ run.pc = "loop"
    /\ run.i < run.total
    /\ LET r == call_with_functions(run.lru, run.model, cache, test_case.query,
                                    <<Schema(run.function_name)>>, TRUE, outcome)
           response == r.result
           test_result == NewTestResult(run.i + 1, test_case)
           frame == [run EXCEPT !.lru = r.lru, !.response = response,
                                !.test_cases = Append(run.test_cases, test_case)]
       IN /\ cache' = r.cache
          /\ provider_calls' = provider_calls + (IF r.invoked THEN 1 ELSE 0)
          /\ run' =
               IF response.kind = "error"
               THEN Appended([frame EXCEPT !.errors = frame.errors + 1],
                             [test_result EXCEPT !.status = "error",
                                                 !.error = response.error])
               ELSE IF ~response.has_function_call
               THEN Appended([frame EXCEPT !.failed = frame.failed + 1],
                             [test_result EXCEPT !.status = "failed",
                                                 !.reason = "not_called"])
               ELSE LET func_name == response.function_call.name
                        found == [test_result EXCEPT
                                    !.actual_function = func_name,
                                    !.actual_arguments = response.function_call.arguments]
                        classified == Classify(test_case, found)
                    IN [frame EXCEPT
                          !.failed = frame.failed + (IF classified.status = "failed" THEN 1 ELSE 0),
                          !.passed = frame.passed + (IF classified.status = "passed" THEN 1 ELSE 0),
                          !.pc = "execute", !.cur = classified]
    /\ UNCHANGED <<model, lru, hist, snapshots, registry, reg_log, exec_log, nlu, match_log, peer>>

\* line 154: registry.execute is entered for the call of the test case
ExecutedOnlyWhenPassed(log, test_result) ==
    IF test_result.status = "passed"
    THEN Append(log, [test_index |-> test_result.test_index,
                      name |-> test_result.actual_function,
                      arguments |-> test_result.actual_arguments])
    ELSE log

Executed(log, test_result) ==
    Append(log, [test_index |-> test_result.test_index,
                 name |-> test_result.actual_function,
                 arguments |-> test_result.actual_arguments])

\* lines 152-161 without the inner try: an exception of registry.execute
\* reaches the except branch of the loop (lines 186-192)
ExecuteUncaught ==
    /\ run.pc = "execute"
    /\ LET e == execute(registry, run.cur.actual_function, run.cur.actual_arguments)
       IN run' = IF e.raised
                 THEN Appended([run EXCEPT !.errors = run.errors + 1],
                               [run.cur EXCEPT !.status = "error", !.error = e.value])
                 ELSE [run EXCEPT !.pc = "load_snapshot", !.cur.execution_result = e.value]
    /\ exec_log' = Executed(exec_log, run.cur)
    /\ UNCHANGED <<model, lru, cache, provider_calls, hist, snapshots, registry, reg_log, nlu,
                   match_log, peer>>

\* lines 152-161: the call is executed through the registry; an exception
\* becomes the execution_result
Execute ==
    /\ run.pc = "execute"
    /\ LET e == execute(registry, run.cur.actual_function, run.cur.actual_arguments)
       IN run' = [run EXCEPT !.pc = "load_snapshot",
                             !.cur.execution_result =
                                 IF e.raised THEN "execution error" ELSE e.value]
    /\ exec_log' = Executed(exec_log, run.cur)
    /\ UNCHANGED <<model, lru, cache, provider_calls, hist, snapshots, registry, reg_log, nlu,
                   match_log, peer>>

\* a load_snapshot that finds no file
load_snapshot_missing(snaps, function_name, test_index) == Absent

\* lines 41-47: load_snapshot returns the file content, or None without a file
load_snapshot(snaps, function_name, test_index) ==
    FileAt(snaps, <<function_name, test_index>>)

\* lines 50-57: save_snapshot writes the file
save_snapshot_nothing(snaps, function_name, test_index, data) == snaps

save_snapshot(snaps, function_name, test_index, data) ==
    Written(snaps, <<function_name, test_index>>, JsonDump(data))

\* lines 166-167: the snapshot directory after the check of one test case
StoreAlways(snaps, loaded, function_name, test_index, current_snapshot) ==
    save_snapshot(snaps, function_name, test_index, current_snapshot)

StoreAfterCheck(snaps, loaded, function_name, test_index, current_snapshot) ==
    IF loaded = Absent
    THEN save_snapshot(snaps, function_name, test_index, current_snapshot)
    ELSE snaps

\* lines 172-175: a mismatch overrides the classification
MismatchKeepsStatus(test_result) ==
    [test_result EXCEPT !.reason = "snapshot_mismatch", !.snapshot_status = "mismatch"]

Mismatch(test_result) ==
    [test_result EXCEPT !.status = "failed", !.reason = "snapshot_mismatch",
                        !.snapshot_status = "mismatch"]

\* lines 164-165 and 186-192 with an except branch that does not append
\* the test_result: the test case of a failed read leaves no entry
LoadSnapshotDropping(io_ok) ==
    /\ run.pc = "load_snapshot"
    /\ run' = IF io_ok
              THEN [run EXCEPT !.pc = "check_snapshot",
                               !.loaded = load_snapshot(snapshots, run.cur.actual_function,
                                                        run.cur.test_index)]
              ELSE [run EXCEPT !.pc = "loop", !.i = run.i + 1, !.errors = run.errors + 1,
                               !.cur = NoRun.cur, !.response = Absent]
    /\ UNCHANGED <<model, lru, cache, provider_calls, hist, snapshots, registry, reg_log, exec_log,
                   nlu, match_log, peer>>

\* lines 164-165 and 186-192: the snapshot file is read; an I/O exception
\* ends the test case in the except branch of the loop
LoadSnapshot(io_ok) ==
    /\ run.pc = "load_snapshot"
    /\ run' = IF io_ok
              THEN [run EXCEPT !.pc = "check_snapshot",
                               !.loaded = load_snapshot(snapshots, run.cur.actual_function,
                                                        run.cur.test_index)]
              ELSE Appended([run EXCEPT !.errors = run.errors + 1],
                            [run.cur EXCEPT !.status = "error", !.error = "io"])
    /\ UNCHANGED <<model, lru, cache, provider_calls, hist, snapshots, registry, reg_log, exec_log,
                   nlu, match_log, peer>>

\* lines 166-184 with the save of a missing snapshot made for passed test
\* cases only
CheckSnapshotOfPassed ==
    /\ run.pc = "check_snapshot"
    /\ LET current_snapshot == [function |-> run.cur.actual_function,
                                arguments |-> run.cur.actual_arguments]
       IN /\ snapshots' = IF run.cur.status = "passed"
                          THEN StoreAfterCheck(snapshots, run.loaded, run.cur.actual_function,
                                               run.cur.test_index, current_snapshot)
                          ELSE snapshots
          /\ run' = IF run.loaded = Absent
                    THEN IF run.cur.status = "passed"
                         THEN Appended(run, [run.cur EXCEPT !.snapshot_status = "saved"])
                         ELSE Appended(run, run.cur)
                    ELSE IF JsonLoad(run.loaded) # current_snapshot
                    THEN Appended([run EXCEPT !.failed = run.failed + 1], Mismatch(run.cur))
                    ELSE Appended(run, [run.cur EXCEPT !.snapshot_status = "match"])
    /\ UNCHANGED <<model, lru, cache, provider_calls, hist, registry, reg_log, exec_log, nlu,
                   match_log, peer>>

\* lines 166-184: a missing snapshot is saved, an existing one is compared
CheckSnapshot ==
    /\ run.pc = "check_snapshot"
    /\ LET current_snapshot == [function |-> run.cur.actual_function,
                                arguments |-> run.cur.actual_arguments]
       IN /\ snapshots' = StoreAfterCheck(snapshots, run.loaded, run.cur.actual_function,
                                          run.cur.test_index, current_snapshot)
          /\ run' = IF run.loaded = Absent
                    THEN Appended(run, [run.cur EXCEPT !.snapshot_status = "saved"])
                    ELSE IF JsonLoad(run.loaded) # current_snapshot
                    THEN Appended([run EXCEPT !.failed = run.failed + 1], Mismatch(run.cur))
                    ELSE Appended(run, [run.cur EXCEPT !.snapshot_status = "match"])
    /\ UNCHANGED <<model, lru, cache, provider_calls, hist, registry, reg_log, exec_log, nlu,
                   match_log, peer>>

\* lines 194-206: the loop is over and the results are returned
FinishRun ==
    /\ run.pc = "loop"
    /\ run.i = run.total
    /\ run' = [run EXCEPT !.pc = "done"]
    /\ UNCHANGED <<model, lru, cache, provider_calls, hist, snapshots, registry, reg_log, exec_log,
                   nlu, match_log, peer>>

NextRunner ==
    \/ \E fn \in Names, m \in RunnerModels, total \in 0..MaxTests : StartRun(fn, m, total)
    \/ \E tc \in TestCases, o \in RunnerOutcomes : Dispatch(tc, o)
    \/ Execute
    \/ LoadSnapshot(TRUE)
    \/ CheckSnapshot
    \/ FinishRun

\* sequential runs whose snapshot files are readable
SpecRunner == Init /\ [][NextRunner]_vars

----------------------------------------------------------------------------
(* OpenRouterClient._evaluate_test_case and                                *)
(* OpenRouterClient.test_natural_language_understanding                    *)

\* lines 249-254: the test_result dict; response_call is the function_call
\* of the stored response, validated tells whether line 315 was reached
NluResult(test_case, response) ==
    [test_index |-> 0, query |-> test_case.query,
     expected_function |-> test_case.expected_function,
     expected_arguments |-> test_case.expected_arguments,
     response_call |-> IF response.kind = "ok" /\ response.has_function_call
                       THEN response.function_call ELSE NoFunctionCall,
     status |-> None, reason |-> None, error |-> None,
     actual_function |-> None, actual_arguments |-> NullA,
     validated |-> FALSE, raised |-> FALSE]

\* the call taken from the response, with a call of "f" assumed when the
\* response holds none
ActualCallAssumed(response) ==
    IF response.has_function_call THEN response.function_call
    ELSE [name |-> "f", arguments |-> ArgsMinsk]

\* lines 261-277: the call taken from the response
ActualCall(response) ==
    IF response.has_function_call THEN response.function_call
    ELSE IF response.has_tool_calls /\ Len(response.tool_calls) > 0
    THEN [name |-> response.tool_calls[1].name,
          arguments |-> response.tool_calls[1].arguments]
    ELSE NoFunctionCall

\* lines 288-291: the reason that names the function called against expectation
UnexpectedCall == [name \in Names |-> IF name = "f" THEN "unexpected_call f"
                                      ELSE "unexpected_call g"]

\* line 302: expected_function is set and is not the function called
FunctionMismatchNever(expected_function, actual_function) == FALSE

FunctionMismatch(expected_function, actual_function) ==
    expected_function # None /\ actual_function # expected_function

\* _evaluate_test_case; raised tells that _validate_arguments raised
evaluate_test_case(test_case, response) ==
    LET test_result == NluResult(test_case, response)
    IN IF response.kind = "error"
       THEN [test_result EXCEPT !.status = "error", !.error = response.error]
       ELSE LET actual_function == ActualCall(response).name
                actual_arguments == ActualCall(response).arguments
            IN IF test_case.expect_no_function
               THEN IF actual_function = None
                    THEN [test_result EXCEPT !.status = "passed",
                                             !.reason = "not_called_as_expected"]
                    ELSE [test_result EXCEPT !.status = "failed",
                                             !.reason = UnexpectedCall[actual_function]]
               ELSE IF actual_function = None
               THEN [test_result EXCEPT !.status = "failed", !.reason = "not_called"]
               ELSE IF FunctionMismatch(test_case.expected_function, actual_function)
               THEN [test_result EXCEPT !.status = "failed",
                                        !.reason = "function_mismatch",
                                        !.actual_function = actual_function]
               ELSE LET validation == validate_arguments(actual_arguments,
                                          test_case.expected_arguments,
                                          test_case.partial_match)
                    IN IF validation.raised
                       THEN [test_result EXCEPT !.validated = TRUE, !.raised = TRUE]
                       ELSE [test_result EXCEPT
                               !.status = IF validation.valid THEN "passed" ELSE "failed",
                               !.reason = validation.reason,
                               !.validated = TRUE,
                               !.actual_function = actual_function,
                               !.actual_arguments = actual_arguments]

\* the descriptor list the caller passes to test_natural_language_understanding
NluSchemas == <<DescF, DescG>>

NluTestCases ==
    {TestCase("q1", "f", [k \in {"city"} |-> StrV(Minsk)], TRUE, FALSE),
     TestCase("q2", "f", [k \in {"city"} |-> StrV(Minsk)], FALSE, FALSE),
     TestCase("q1", None, << >>, TRUE, FALSE),
     TestCase("q2", None, << >>, TRUE, TRUE),
     TestCase("q1", "f", [k \in {"city"} |-> StrV(Minsk)], TRUE, TRUE)}

NluOutcomes ==
    {Raises,
     Message(1, "text", << >>),
     Message(1, None, <<ToolCall("c1", "function", "f", Payload(ArgsMinsk))>>),
     Message(1, None, <<ToolCall("c1", "function", "f", Payload(ArgsMINSK))>>),
     Message(1, None, <<ToolCall("c1", "function", "f", Payload(ArgsParis))>>),
     Message(1, None, <<ToolCall("c1", "function", "g", Payload(ArgsMinsk))>>),
     Message(1, None, <<ToolCall("c1", "function", "f", Payload(EmptyDict))>>),
     Message(1, None, <<ToolCall("c1", "function", "f", Payload(NumA))>>)}

\* lines 175-182: the loop is entered with empty results
NluStart(total) ==
    /\ nlu.pc = "idle"
    /\ nlu' = [NoNlu EXCEPT !.pc = "loop", !.total = total]
    /\ UNCHANGED <<model, lru, cache, provider_calls, hist, snapshots, registry, reg_log, run,
                   exec_log, match_log, peer>>

\* per-function statistics that count the call and the passes but no failure
StatsAfterPassedOnly(function_stats, response, status) ==
    IF response.kind = "ok" /\ response.has_function_call
    THEN LET func_name == response.function_call.name
             old == IF func_name \in DOMAIN function_stats THEN function_stats[func_name]
                    ELSE [called |-> 0, passed |-> 0, failed |-> 0]
             new == [called |-> old.called + 1,
                     passed |-> old.passed + (IF status = "passed" THEN 1 ELSE 0),
                     failed |-> old.failed]
         IN [f \in DOMAIN function_stats \cup {func_name} |->
               IF f = func_name THEN new ELSE function_stats[f]]
    ELSE function_stats

\* lines 208-221: the per-function statistics after one evaluated test case
StatsAfter(function_stats, response, status) ==
    IF response.kind = "ok" /\ response.has_function_call
    THEN LET func_name == response.function_call.name
             old == IF func_name \in DOMAIN function_stats THEN function_stats[func_name]
                    ELSE [called |-> 0, passed |-> 0, failed |-> 0]
             new == [called |-> old.called + 1,
                     passed |-> old.passed + (IF status = "passed" THEN 1 ELSE 0),
                     failed |-> old.failed + (IF status = "failed" THEN 1 ELSE 0)]
         IN [f \in DOMAIN function_stats \cup {func_name} |->
               IF f = func_name THEN new ELSE function_stats[f]]
    ELSE function_stats

\* lines 184-233: one iteration of the loop, the except branch included
NluStep(test_case, outcome) ==
    /\ nlu.pc = "loop"
    /\ nlu.i < nlu.total
    /\ LET r == call_with_functions(lru, model, cache, test_case.query, NluSchemas,
                                    TRUE, outcome)
           evaluated == evaluate_test_case(test_case, r.result)
           test_result == [evaluated EXCEPT !.test_index = nlu.i + 1]
           frame == [nlu EXCEPT !.i = nlu.i + 1,
                                !.test_cases = Append(nlu.test_cases, test_case)]
       IN /\ cache' = r.cache
          /\ lru' = r.lru
          /\ provider_calls' = provider_calls + (IF r.invoked THEN 1 ELSE 0)
          /\ nlu' =
               IF evaluated.raised
               THEN [frame EXCEPT
                       !.details = Append(nlu.details,
                           [NluResult(test_case, r.result) EXCEPT
                               !.test_index = nlu.i + 1, !.status = "error",
                               !.error = "TypeError", !.raised = TRUE,
                               !.validated = TRUE,
                               !.response_call = NoFunctionCall]),
                       !.errors = nlu.errors + 1]
               ELSE [frame EXCEPT
                       !.details = Append(nlu.details, test_result),
                       !.passed = nlu.passed + (IF test_result.status = "passed" THEN 1 ELSE 0),
                       !.failed = nlu.failed + (IF test_result.status = "failed" THEN 1 ELSE 0),
                       !.errors = nlu.errors + (IF test_result.status = "error" THEN 1 ELSE 0),
                       !.function_stats = StatsAfter(nlu.function_stats, r.result,
                                                     test_result.status)]
    /\ UNCHANGED <<model, hist, snapshots, registry, reg_log, run, exec_log, match_log, peer>>

\* lines 235-241: the loop is over and the results are returned
NluFinish ==
    /\ nlu.pc = "loop"
    /\ nlu.i = nlu.total
    /\ nlu' = [nlu EXCEPT !.pc = "done"]
    /\ UNCHANGED <<model, lru, cache, provider_calls, hist, snapshots, registry, reg_log, run,
                   exec_log, match_log, peer>>

NextNlu ==
    \/ \E total \in 0..MaxTests : NluStart(total)
    \/ \E tc \in NluTestCases, o \in NluOutcomes : NluStep(tc, o)
    \/ NluFinish

SpecNlu == Init /\ [][NextNlu]_vars

----------------------------------------------------------------------------
(* Claims about run_tests_for_function of tests/test_runner.py (SpecRunner) *)

\* the key, the observed call and the stored snapshot of the test case whose
\* snapshot is about to be checked
CheckedKey == <<run.cur.actual_function, run.cur.test_index>>
Observed == [function |-> run.cur.actual_function, arguments |-> run.cur.actual_arguments]
Stored == FileAt(snapshots, CheckedKey)

\* the step that performs the snapshot check of the current test case
SnapshotChecked ==
    /\ run.pc = "check_snapshot"
    /\ run'.pc = "loop"
    /\ Len(run'.details) = Len(run.details) + 1

Reported == run'.details[Len(run'.details)]

\* C3: a snapshot check of a key with no stored snapshot reports "saved" and
\* stores the observed {function, arguments}; a check of a key whose stored
\* snapshot equals the observed value reports "match"; a check of a key
\* whose stored snapshot differs from the observed value reports "mismatch".
C3_FirstWriteThenStable ==
    [][SnapshotChecked =>
          /\ Stored = Absent =>
                /\ Reported.snapshot_status = "saved"
                /\ FileAt(snapshots', CheckedKey) # Absent
                /\ JsonLoad(FileAt(snapshots', CheckedKey)) = Observed
          /\ (Stored # Absent /\ JsonLoad(Stored) = Observed) =>
                Reported.snapshot_status = "match"
          /\ (Stored # Absent /\ JsonLoad(Stored) # Observed) =>
                Reported.snapshot_status = "mismatch"]_vars

SnapshotOf(d) == FileAt(snapshots, <<d.actual_function, d.test_index>>)
ObservedOf(d) == [function |-> d.actual_function, arguments |-> d.actual_arguments]

\* C3 witness: in a second run one key saved by the first run is checked
\* again with the same observed call (match) and another with a different
\* one (mismatch)
C3_Witness ==
    /\ run.n = 2
    /\ \E i, j \in 1..Len(run.details) :
          /\ run.details[i].snapshot_status = "match"
          /\ JsonLoad(SnapshotOf(run.details[i])) = ObservedOf(run.details[i])
          /\ run.details[j].snapshot_status = "mismatch"
          /\ JsonLoad(SnapshotOf(run.details[j])) # ObservedOf(run.details[j])

\* C4: once a snapshot exists for (function_name, test_index) its stored
\* value never changes, whatever the later runs observe.
C4_SnapshotWrittenOnce ==
    [][\A e \in snapshots : FileAt(snapshots', e.key) = e.file]_vars

\* C4 witness: a mismatch was reported and the stored snapshot still holds
\* the earlier value, not the observed one
C4_Witness ==
    \E i \in 1..Len(run.details) :
        /\ run.details[i].snapshot_status = "mismatch"
        /\ SnapshotOf(run.details[i]) # Absent
        /\ JsonLoad(SnapshotOf(run.details[i])) # ObservedOf(run.details[i])

\* C5: whenever the stored snapshot of (actual function, test index) differs
\* from the observed call, the test case ends "failed" with snapshot_status
\* "mismatch", whatever it was classified before the snapshot check.
C5_DriftOverrides ==
    [][(SnapshotChecked /\ Stored # Absent /\ JsonLoad(Stored) # Observed) =>
          /\ Reported.status = "failed"
          /\ Reported.snapshot_status = "mismatch"
          /\ run'.failed = run.failed + 1]_vars

\* C5 witness: a test case whose function name met the expectation (it was
\* classified passed) ends failed on a snapshot mismatch
C5_Witness ==
    \E i \in 1..Len(run.details) :
        /\ run.details[i].snapshot_status = "mismatch"
        /\ run.details[i].status = "failed"
        /\ run.test_cases[i].expected_function = run.details[i].actual_function

\* the number of entries of details with a status
Count(details, status) ==
    Cardinality({i \in 1..Len(details) : details[i].status = status})

\* no test case of the run ended in the except branch for a snapshot I/O error
NoIoError == \A i \in 1..Len(run.details) : run.details[i].error # "io"

TallyExact(frame) ==
    /\ frame.passed = Count(frame.details, "passed")
    /\ frame.failed = Count(frame.details, "failed")
    /\ frame.errors = Count(frame.details, "error")
    /\ frame.pc = "done" =>
          /\ frame.passed + frame.failed + frame.errors = frame.total
          /\ frame.total = Len(frame.details)

\* C6 as stated: between test cases and in the returned summary, passed,
\* failed and errors are the numbers of entries of details with that final
\* status, and they add up to total (runs without snapshot I/O errors).
C6_TallyExact ==
    /\ (run.pc \in {"loop", "done"} /\ NoIoError) => TallyExact(run)
    /\ nlu.pc \in {"loop", "done"} => TallyExact(nlu)

\* C7 as stated: when the response holds a call, expect_no_function is not
\* set, the function name does not mismatch and no snapshot mismatch occurs,
\* the final status is passed exactly when _validate_arguments accepts.
C7_MatcherDecides ==
    /\ \A i \in 1..Len(run.details) :
          LET d == run.details[i]
              tc == run.test_cases[i]
          IN (/\ d.actual_function # None
              /\ ~tc.expect_no_function
              /\ ~FunctionMismatch(tc.expected_function, d.actual_function)
              /\ d.snapshot_status # "mismatch"
              /\ d.error # "io")
             => (d.status = "passed"
                   <=> validate_arguments(d.actual_arguments, tc.expected_arguments,
                                          tc.partial_match).valid)
    /\ \A i \in 1..Len(nlu.details) :
          LET d == nlu.details[i]
              tc == nlu.test_cases[i]
          IN (/\ d.response_call # NoFunctionCall
              /\ ~tc.expect_no_function
              /\ ~FunctionMismatch(tc.expected_function, d.response_call.name))
             => (d.status = "passed"
                   <=> validate_arguments(d.response_call.arguments, tc.expected_arguments,
                                          tc.partial_match).valid)

\* C8 as stated: a test case with expect_no_function whose response is not
\* an error is passed exactly when no call was parsed; with a call it is
\* failed with a reason naming the called function.
C8_NoFunctionExpected ==
    /\ \A i \in 1..Len(run.details) :
          LET d == run.details[i]
              tc == run.test_cases[i]
          IN (tc.expect_no_function /\ d.status # "error")
             => /\ d.status = "passed" <=> d.actual_function = None
                /\ d.actual_function # None =>
                      d.status = "failed" /\ d.reason = UnexpectedCall[d.actual_function]
    /\ \A i \in 1..Len(nlu.details) :
          LET d == nlu.details[i]
              tc == nlu.test_cases[i]
          IN (tc.expect_no_function /\ d.status # "error")
             => /\ d.status = "passed" <=> d.response_call = NoFunctionCall
                /\ d.response_call # NoFunctionCall =>
                      d.status = "failed"
                      /\ d.reason = UnexpectedCall[d.response_call.name]

\* the call of an evaluated test case names another function than the
\* expected_function of the test case
NameMismatch(test_case, test_result) ==
    /\ test_case.expected_function # None
    /\ test_result.response_call # NoFunctionCall
    /\ test_result.response_call.name # test_case.expected_function

\* lines 132-150 of tests/test_runner.py applied to the same test case and response
RunnerClassified(test_case, test_result) ==
    Classify(test_case,
             [NewTestResult(test_result.test_index, test_case) EXCEPT
                 !.actual_function = test_result.response_call.name,
                 !.actual_arguments = test_result.response_call.arguments])

\* C9 as stated: when expected_function is set and differs from the name of
\* the call, the test case is failed, _validate_arguments is not run and the
\* reason is the function-name mismatch.
C9_AsStated ==
    \A i \in 1..Len(nlu.details) :
        NameMismatch(nlu.test_cases[i], nlu.details[i])
        => /\ nlu.details[i].status = "failed"
           /\ ~nlu.details[i].validated
           /\ nlu.details[i].reason = "function_mismatch"

\* C9 amended: when expected_function is set and differs from the name of
\* the call, the test case is failed and _validate_arguments is not run,
\* whatever the arguments; run_tests_for_function gives the function-name
\* mismatch as the reason, and _evaluate_test_case gives it when the test
\* case does not set expect_no_function, else the reason is the unexpected
\* call (expect_no_function is decided first).
C9_NameMismatchFails ==
    \A i \in 1..Len(nlu.details) :
        NameMismatch(nlu.test_cases[i], nlu.details[i])
        => /\ nlu.details[i].status = "failed"
           /\ ~nlu.details[i].validated
           /\ nlu.details[i].reason =
                 IF nlu.test_cases[i].expect_no_function
                 THEN UnexpectedCall[nlu.details[i].response_call.name]
                 ELSE "function_mismatch"
           /\ RunnerClassified(nlu.test_cases[i], nlu.details[i]).status = "failed"
           /\ RunnerClassified(nlu.test_cases[i], nlu.details[i]).reason = "function_mismatch"

\* C9 witness: the call names another function than expected while its
\* arguments are the expected ones, for a test case without expect_no_function
C9_Witness ==
    \E i \in 1..Len(nlu.details) :
        /\ NameMismatch(nlu.test_cases[i], nlu.details[i])
        /\ ~nlu.test_cases[i].expect_no_function
        /\ nlu.details[i].status = "failed"
        /\ validate_arguments(nlu.details[i].response_call.arguments,
                              nlu.test_cases[i].expected_arguments,
                              nlu.test_cases[i].partial_match).valid

\* the registry.execute invocations made for the test case with an index
ExecutionsOf(test_index) == {j \in 1..Len(exec_log) : exec_log[j].test_index = test_index}

\* C10: for every test case whose response holds a call, registry.execute is
\* invoked exactly once, with the name and arguments of that call, whatever
\* the classification; for a test case without a call it is not invoked.
C10_ExecutedOnce ==
    /\ \A i \in 1..Len(run.details) :
          LET d == run.details[i]
          IN IF d.actual_function # None
             THEN /\ Cardinality(ExecutionsOf(i)) = 1
                  /\ \A j \in ExecutionsOf(i) :
                        /\ exec_log[j].name = d.actual_function
                        /\ exec_log[j].arguments = d.actual_arguments
             ELSE ExecutionsOf(i) = {}
    /\ run.pc = "execute" => ExecutionsOf(run.cur.test_index) = {}
    /\ run.pc \in {"load_snapshot", "check_snapshot"} =>
          Cardinality(ExecutionsOf(run.cur.test_index)) = 1

\* C10 witness: a finished test case that failed on the function name and
\* one that passed, each executed once
C10_Witness ==
    \E i, j \in 1..Len(run.details) :
        /\ run.details[i].reason = "function_mismatch"
        /\ Cardinality(ExecutionsOf(i)) = 1
        /\ run.details[j].status = "passed"
        /\ Cardinality(ExecutionsOf(j)) = 1

\* registry.execute raises for the call of the test case being processed:
\* the name is not registered or the callable raises
ExecutionRaises ==
    \/ run.cur.actual_function \notin DOMAIN registry.functions
    \/ CallableRaises(run.cur.actual_function, run.cur.actual_arguments)

\* C11: when registry.execute raises for the call of a test case, the step
\* that executes it stores a string execution_result telling the execution
\* error, leaves status, reason and the counters as the classification set
\* them, appends nothing to details, and goes on to the snapshot check of
\* the same test case (after which the loop continues).
C11_ExecutionErrorRecorded ==
    [][(run.pc = "execute" /\ ExecutionRaises)
       => /\ run'.pc = "load_snapshot"
          /\ run'.cur.execution_result = "execution error"
          /\ run'.cur.status = run.cur.status
          /\ run'.cur.reason = run.cur.reason
          /\ run'.cur.error = None
          /\ <<run'.passed, run'.failed, run'.errors>> = <<run.passed, run.failed, run.errors>>
          /\ run'.details = run.details
          /\ run'.i = run.i]_vars

\* C11 witness: a test case classified passed whose execution raised went
\* through the snapshot check, and a later test case was processed after it
C11_Witness ==
    \E i, j \in 1..Len(run.details) :
        /\ i < j
        /\ run.details[i].execution_result = "execution error"
        /\ run.details[i].status = "passed"
        /\ run.details[i].snapshot_status \in {"saved", "match"}

\* the provider was invoked by the step and nothing was cached: the provider
\* call failed (a successful call on a miss always writes the cache file)
ProviderFailed == provider_calls' = provider_calls + 1 /\ cache' = cache

\* C12: a step of the run in which the provider call fails ends the test
\* case at once: one entry with status 'error' and the provider error is
\* appended and errors grows by one, with no function, no execution result
\* and no snapshot status; registry.execute is not invoked and the snapshot
\* directory is not changed; _evaluate_test_case gives status 'error' for
\* the same error result without running _validate_arguments.
C12_ProviderErrorIsolated ==
    [][ProviderFailed
       => /\ run.pc = "loop" /\ run'.pc = "loop"
          /\ Len(run'.details) = Len(run.details) + 1
          /\ LET d == run'.details[Len(run'.details)]
                 tc == run'.test_cases[Len(run'.test_cases)]
                 e == evaluate_test_case(tc, ErrorResult(tc.query,
                                             <<Schema(run.function_name)>>, "provider"))
             IN /\ d.status = "error" /\ d.error = "provider"
                /\ d.actual_function = None
                /\ d.execution_result = None
                /\ d.snapshot_status = None
                /\ e.status = "error" /\ e.error = "provider" /\ ~e.validated
          /\ <<run'.passed, run'.failed, run'.errors>> = <<run.passed, run.failed, run.errors + 1>>
          /\ exec_log' = exec_log
          /\ snapshots' = snapshots]_vars

\* C12 witness: a test case that expects a call of f ended with the provider
\* error, in a run whose earlier test case stored a snapshot
C12_Witness ==
    \E i \in 1..Len(run.details) :
        /\ run.details[i].error = "provider"
        /\ run.test_cases[i].expected_function = "f"
        /\ ExecutionsOf(i) = {}
        /\ snapshots # {}

----------------------------------------------------------------------------
(* One process that runs one suite, with run_tests_for_function or with    *)
(* test_natural_language_understanding; reading a snapshot file may raise. *)
(* The interpreter keeps executing the loop, so a step that is possible is *)
(* eventually taken.                                                       *)

\* run_tests_for_function has not returned
RunNotOver == run.pc \in {"idle", "loop", "execute", "load_snapshot", "check_snapshot"}

\* what one iteration of the NLU loop can meet: a provider failure, a text
\* answer, a call that passes and a call whose evaluation raises
LoopOutcomes ==
    {Raises,
     Message(1, "text", << >>),
     Message(1, None, <<ToolCall("c1", "function", "f", Payload(ArgsMinsk))>>),
     Message(1, None, <<ToolCall("c1", "function", "f", Payload(NumA))>>)}

NextLoops ==
    \/ nlu.pc = "idle" /\ RunNotOver /\ NextRunner
    \/ nlu.pc = "idle" /\ LoadSnapshot(FALSE)
    \/ run.pc = "idle" /\ \E total \in 0..MaxTests : NluStart(total)
    \/ run.pc = "idle" /\ \E tc \in NluTestCases, o \in LoopOutcomes : NluStep(tc, o)
    \/ run.pc = "idle" /\ NluFinish

SpecLoops == Init /\ [][NextLoops]_vars /\ WF_vars(NextLoops)

\* a suite is being processed
RunInLoop == run.pc \in {"loop", "execute", "load_snapshot", "check_snapshot"}
NluInLoop == nlu.pc = "loop"

\* the summary holds one entry per test case, in input order
OneEntryPerCase(frame) ==
    /\ Len(frame.details) = frame.total
    /\ Len(frame.test_cases) = frame.total
    /\ \A i \in 1..frame.total :
          /\ frame.details[i].test_index = i
          /\ frame.details[i].query = frame.test_cases[i].query
          /\ frame.details[i].status \in {"passed", "failed", "error"}

\* C13: every started run of run_tests_for_function and of
\* test_natural_language_understanding reaches its end, whatever the
\* provider, execution and snapshot I/O outcomes of its test cases, and the
\* summary then holds exactly one entry per test case, in input order.
C13_RunCompletes ==
    /\ RunInLoop ~> run.pc = "done"
    /\ NluInLoop ~> nlu.pc = "done"
    /\ [](run.pc = "done" => OneEntryPerCase(run))
    /\ [](nlu.pc = "done" => OneEntryPerCase(nlu))

\* C13 witness: a finished run whose test cases ended with a provider
\* failure and with a snapshot I/O exception
C13_Witness ==
    /\ run.pc = "done"
    /\ \E i, j \in 1..Len(run.details) :
          /\ run.details[i].error = "provider"
          /\ run.details[j].error = "io"
          /\ run.details[j].execution_result = "execution error"

----------------------------------------------------------------------------
(* Claims about the cache and the results of call_with_functions (SpecClient) *)

\* C14 as stated: no call_with_functions call changes the content stored
\* for a key that already has a cache file.
C14_CacheEntryNeverMutated ==
    [][\A e \in cache : FileAt(cache', e.key) = e.file]_vars

\* C15 as stated: the key used by every call is the digest of the query,
\* the serialized descriptor list and the model the client has at the time
\* of the call (so a call after a change of the model does not use the key
\* of the previous model).
C15_KeyOfRequestContent ==
    \A i \in 1..Len(hist) :
        hist[i].key = Digest(hist[i].q, Dumps(hist[i].fs), hist[i].model)

\* C16 as stated: no call_with_functions call ends in an error result
\* because json.loads rejected the argument payload of a tool-call record:
\* a call whose provider message carries such a record returns a normal
\* result.
C16_MalformedArgumentsKept ==
    \A i \in 1..Len(hist) :
        hist[i].invoked => ~(hist[i].result.kind = "error" /\ hist[i].result.error = "json")

\* C17: in every result of call_with_functions that is not an error, read
\* from the cache or built from a provider message, function_call is present
\* and holds the name and arguments of the first entry of tool_calls when
\* the parsed tool_calls are not empty, and is absent when they are empty or
\* the message has no tool_calls.
C17_AliasIsFirstToolCall ==
    \A i \in 1..Len(hist) :
        LET r == hist[i].result
        IN r.kind = "ok" =>
              /\ ~r.has_tool_calls => r.tool_calls = << >>
              /\ IF r.tool_calls # << >>
                 THEN /\ r.has_function_call
                      /\ r.function_call = [name |-> r.tool_calls[1].name,
                                            arguments |-> r.tool_calls[1].arguments]
                 ELSE ~r.has_function_call /\ r.function_call = NoFunctionCall

\* C17 witness: a result with two parsed tool calls was read from the cache
\* and its alias names the first of them
C17_Witness ==
    \E i \in 1..Len(hist) :
        /\ hist[i].hit
        /\ hist[i].result.kind = "ok"
        /\ Len(hist[i].result.tool_calls) = 2
        /\ hist[i].result.tool_calls[2].name = "f"
        /\ hist[i].result.function_call.name = "g"

----------------------------------------------------------------------------
(* Claims about the FunctionRegister (SpecRegistry) *)

\* the last operation was a register_function call
Registered == reg_log.op = "register_function"

\* C18 as stated: register_function stores a function only if its
\* descriptor passes every check of the schema validation (the checks of
\* each property included): every stored descriptor passes them, and a
\* register_function call whose descriptor fails one of them raises.
C18_RegistrationValidatesCompletely ==
    /\ \A k \in DOMAIN registry.schemas : ~validate_schema_raises(registry.schemas[k], k)
    /\ (Registered /\ validate_schema_raises(reg_log.schema, reg_log.name)) => reg_log.raised

\* C19: the function table and the schema table have the same keys, and for
\* every key the name of the stored descriptor and the name of the stored
\* FunctionInfo are the key.
C19_RegistryKeys ==
    /\ DOMAIN registry.functions = DOMAIN registry.schemas
    /\ \A k \in DOMAIN registry.schemas :
          /\ registry.schemas[k].name = k
          /\ registry.functions[k].name = k

\* C19 witness: two names are registered and the last registration, of a
\* descriptor whose name is not the name it is registered under, was refused
C19_Witness ==
    /\ DOMAIN registry.functions = {"f", "g"}
    /\ Registered
    /\ reg_log.raised
    /\ reg_log.schema = SchemaG
    /\ reg_log.name = "f"
    /\ ~SignatureRaises(reg_log.function)

\* C20: a register_function call with a valid callable and descriptor under
\* a name that is already registered raises nothing and leaves the set of
\* registered names as it was; afterwards get_schema, get_function and
\* execute for the name give the descriptor and the callable of this call,
\* and the entries of the other names are unchanged.
C20_LastWriteWins ==
    [][(/\ reg_log'.n = reg_log.n + 1
        /\ reg_log'.op = "register_function"
        /\ reg_log'.name \in DOMAIN registry.functions
        /\ ~SignatureRaises(reg_log'.function)
        /\ ~SchemaRaises(reg_log'.schema, reg_log'.name))
       => LET k == reg_log'.name
          IN /\ ~reg_log'.raised
             /\ DOMAIN registry'.functions = DOMAIN registry.functions
             /\ DOMAIN registry'.schemas = DOMAIN registry.schemas
             /\ get_schema(registry', k) = [raised |-> FALSE, value |-> reg_log'.schema]
             /\ get_function(registry', k) = [raised |-> FALSE, value |-> reg_log'.function]
             /\ execute(registry', k, ArgsMinsk).value = reg_log'.function.result
             /\ \A other \in DOMAIN registry.functions \ {k} :
                   /\ registry'.functions[other] = registry.functions[other]
                   /\ registry'.schemas[other] = registry.schemas[other]]_vars

\* C20 witness: the name f, registered with one callable and descriptor, was
\* registered again with another callable and another descriptor
C20_Witness ==
    /\ Registered
    /\ ~reg_log.raised
    /\ reg_log.name = "f"
    /\ reg_log.function = Forecast
    /\ reg_log.schema = SchemaF2
    /\ registry.functions["f"].func = Forecast
    /\ registry.schemas["f"] = SchemaF2
    /\ InitRegistry.functions["f"].func = Weather

----------------------------------------------------------------------------
(* Claims about lookups and execution in the FunctionRegister (SpecRegistry) *)

\* C21: get_schema(name) and execute(name, arguments) on a name that is not
\* registered raise KeyError, invoke no callable and leave both tables as
\* they were; execute on a registered name invokes the callable stored under
\* that name exactly once with the given arguments, returns what it returns
\* and raises when it raises.
C21_LookupAndExecute ==
    [][reg_log'.n # reg_log.n =>
         /\ reg_log'.op \in {"get_schema", "get_function", "execute"} => registry' = registry
         /\ (reg_log'.op = "get_schema" /\ reg_log'.name \notin DOMAIN registry.schemas) =>
               /\ reg_log'.raised
               /\ reg_log'.value = "KeyError"
         /\ (reg_log'.op = "execute" /\ reg_log'.name \notin DOMAIN registry.functions) =>
               /\ reg_log'.raised
               /\ reg_log'.value = "KeyError"
               /\ reg_log'.invoked = << >>
         /\ (reg_log'.op = "execute" /\ reg_log'.name \in DOMAIN registry.functions) =>
               /\ reg_log'.invoked =
                     <<Invocation(registry.functions[reg_log'.name].func, reg_log'.arguments)>>
               /\ reg_log'.raised = CallableRaises(reg_log'.name, reg_log'.arguments)
               /\ ~reg_log'.raised =>
                     reg_log'.value = registry.functions[reg_log'.name].func.result]_vars

\* C21 witness: "f" was registered again, now for forecast, and
\* execute("f", ...) invoked forecast once with the given arguments; the
\* exception forecast raised reached the caller
C21_Witness ==
    /\ reg_log.op = "execute"
    /\ reg_log.name = "f"
    /\ reg_log.arguments = ArgsParis
    /\ reg_log.invoked = <<Invocation(Forecast, ArgsParis)>>
    /\ reg_log.raised
    /\ reg_log.value = "callable raised"

----------------------------------------------------------------------------
(* Claims about _validate_arguments (SpecMatcher) *)

\* the observed call ran the partial-match loop on a dict and reached the
\* test of key k: k is expected and present in actual
KeyChecked(k) ==
    /\ match_log.called
    /\ match_log.partial_match
    /\ match_log.actual.t = "dict"
    /\ k \in DOMAIN match_log.expected
    /\ k \in DOMAIN match_log.actual.d

\* a key that does not pass makes the call invalid; a key that passes makes
\* the call valid when it is the only expected key
KeyDecides(k, passes) ==
    /\ ~passes => ~match_log.validation.valid
    /\ (passes /\ DOMAIN match_log.expected = {k}) => match_log.validation.valid

\* isinstance(value, str) and ',' in value
CommaString(value) == value.t = "str" /\ HasComma(value.s)

\* the trimmed items of a comma-separated string or of a list
ItemSet(value) ==
    IF value.t = "str" THEN {Strip(piece) : piece \in Range(Split(value.s))}
    ELSE {Strip(Str(item)) : item \in Range(value.l)}

\* C22 as stated: with partial_match=False the call on two mappings, empty
\* ones included, is valid exactly when actual equals expected.
C22_FullMatchIsEquality ==
    (/\ match_log.called
     /\ ~match_log.partial_match
     /\ match_log.actual.t = "dict")
    => (match_log.validation.valid <=> match_log.actual.d = match_log.expected)

\* C23: in partial mode, a key whose expected value is a string with a comma
\* and whose actual value is a string or a list passes exactly when every
\* trimmed expected item is among the trimmed actual items: a missing item
\* makes the call invalid, items only in actual do not.
C23_SubsetRule ==
    \A k \in DOMAIN MatchValues :
        (/\ KeyChecked(k)
         /\ CommaString(match_log.expected[k])
         /\ match_log.actual.d[k].t \in {"str", "list"})
        => KeyDecides(k, \A item \in ItemSet(match_log.expected[k]) :
                            item \in ItemSet(match_log.actual.d[k]))

\* C23 witness: "a, b" was expected and the list [" a", "b", "c"] was
\* accepted: an extra item, and an item that had to be trimmed
C23_Witness ==
    /\ KeyChecked("tags")
    /\ match_log.expected = [k \in {"tags"} |-> StrV(<<"a", ",", " ", "b">>)]
    /\ match_log.actual.d["tags"] = ListV(<<StrV(<<" ", "a">>), StrV(<<"b">>), StrV(<<"c">>)>>)
    /\ match_log.validation.valid

\* C24 as stated: in partial mode, adding to actual keys that do not occur in
\* expected never changes whether the call is valid.
C24_ExtraKeysIgnored ==
    (/\ match_log.called
     /\ match_log.partial_match
     /\ match_log.actual.t = "dict")
    => \A more \in MatchMappings :
          (/\ DOMAIN match_log.actual.d \subseteq DOMAIN more
           /\ \A k \in DOMAIN match_log.actual.d : more[k] = match_log.actual.d[k]
           /\ (DOMAIN more \ DOMAIN match_log.actual.d) \cap DOMAIN match_log.expected = {})
          => validate_arguments(DictA(more), match_log.expected, TRUE).valid
               = match_log.validation.valid

C26_CaseInsensitiveScalars ==
    \A k \in DOMAIN MatchValues :
        (/\ KeyChecked(k)
         /\ ~CommaString(match_log.expected[k])
         /\ ~(match_log.expected[k].t = "list" /\ match_log.actual.d[k].t = "list"))
        => KeyDecides(k, Lower(Str(match_log.actual.d[k])) = Lower(Str(match_log.expected[k])))

\* C26 witness: "Mi" was expected, "MI" was accepted, and the int 3 was
\* accepted for the expected "3"
C26_Witness ==
    /\ KeyChecked("city")
    /\ match_log.expected = [city |-> StrV(Minsk), days |-> StrV(<<"3">>)]
    /\ match_log.actual.d = [city |-> StrV(MINSK), days |-> IntV(3)]
    /\ match_log.validation.valid

----------------------------------------------------------------------------
(* Claims about the signature check of register_function (SpecSignatures) *)

\* the annotation is the type dict or typing.Dict[...]
DenotesMapping(annotation) == annotation \in {"dict", "Dict"}

\* the callable declares exactly one parameter, and an annotation of that
\* parameter denotes a mapping type
WellSigned(func) ==
    /\ func.nparams = 1
    /\ func.annotation # "empty" => DenotesMapping(func.annotation)

\* C27 as stated: register_function raises, and leaves both tables as they
\* were, unless the callable declares exactly one parameter whose annotation,
\* when there is one, denotes a mapping (dict/Dict) type.
C27_SignatureValidated ==
    [][(/\ reg_log'.n # reg_log.n
        /\ reg_log'.op = "register_function"
        /\ ~WellSigned(reg_log'.function))
       => (reg_log'.raised /\ registry' = registry)]_vars

----------------------------------------------------------------------------
(* More claims about run_tests_for_function (SpecRunner) *)

\* C28: a test case whose response holds a call always reaches the snapshot
\* check; when no snapshot is stored for (actual function, test index) the
\* check stores the observed {function, arguments} and reports "saved",
\* whatever the classification of the test case, and leaves the status and
\* the counters as the classification set them.
C28_SavedOnFirstSight ==
    /\ [][(SnapshotChecked /\ Stored = Absent) =>
             /\ Reported.snapshot_status = "saved"
             /\ FileAt(snapshots', CheckedKey) = JsonDump(Observed)
             /\ Reported.status = run.cur.status
             /\ Reported.reason = run.cur.reason
             /\ run'.passed = run.passed /\ run'.failed = run.failed
             /\ run'.errors = run.errors]_vars
    /\ [](\A i \in 1..Len(run.details) :
             run.details[i].actual_function # None =>
                 run.details[i].snapshot_status \in {"saved", "match", "mismatch"})

\* C28 witness: "f" was expected and "g" was called: the test case is
\* failed for the name, and its call is the stored snapshot of ("g", index)
C28_Witness ==
    \E i \in 1..Len(run.details) :
        /\ run.details[i].status = "failed"
        /\ run.details[i].reason = "function_mismatch"
        /\ run.details[i].snapshot_status = "saved"
        /\ SnapshotOf(run.details[i]) = JsonDump(ObservedOf(run.details[i]))

----------------------------------------------------------------------------
(* A claim about both loops (SpecLoops) *)

\* the test case and the entry of iteration i of a frame
CaseOf(frame, i) == frame.test_cases[i]
EntryOf(frame, i) == frame.details[i]

\* a step that takes a test case from the loop head to its appended entry
\* at once: the response was an error or held no call
EndedAtResponse ==
    /\ run.pc = "loop"
    /\ run'.pc = "loop"
    /\ Len(run'.details) = Len(run.details) + 1

\* C29: a test case that does not set expect_no_function and whose
\* response is not an error and holds no call ends "failed" with the reason
\* that no function was called, in run_tests_for_function and in
\* test_natural_language_understanding; nothing is executed through the
\* registry for it and no snapshot is read or written.
C29_NoCallFails ==
    /\ [](\A i \in 1..Len(run.details) :
             (/\ ~CaseOf(run, i).expect_no_function
              /\ EntryOf(run, i).error = None
              /\ EntryOf(run, i).actual_function = None)
             => /\ EntryOf(run, i).status = "failed"
                /\ EntryOf(run, i).reason = "not_called"
                /\ EntryOf(run, i).execution_result = None
                /\ EntryOf(run, i).snapshot_status = None
                /\ \A j \in 1..Len(exec_log) : exec_log[j].test_index # i)
    /\ [](\A i \in 1..Len(nlu.details) :
             (/\ ~CaseOf(nlu, i).expect_no_function
              /\ EntryOf(nlu, i).error = None
              /\ EntryOf(nlu, i).response_call = NoFunctionCall)
             => /\ EntryOf(nlu, i).status = "failed"
                /\ EntryOf(nlu, i).reason = "not_called")
    /\ [][(EndedAtResponse \/ nlu' # nlu) =>
             (snapshots' = snapshots /\ exec_log' = exec_log)]_vars

\* C29 witness: a run of two test cases that expected "f" ended; the first
\* response was a text answer, and the only execution and the only
\* snapshot are those of the second test case
C29_Witness ==
    /\ run.pc = "done"
    /\ Len(run.details) = 2
    /\ ~CaseOf(run, 1).expect_no_function
    /\ EntryOf(run, 1).status = "failed"
    /\ EntryOf(run, 1).reason = "not_called"
    /\ Len(exec_log) = 1 /\ exec_log[1].test_index = 2
    /\ \A e \in snapshots : e.key[2] = 2

----------------------------------------------------------------------------
(* Two processes in run_tests_for_function that share the snapshots        *)
(* directory.  The first is the run above; of the second, only the         *)
(* snapshot check of one test case is followed (lines 163-182): its        *)
(* provider response held the call func_name(func_args).  A process reads  *)
(* the file in one step and writes or compares in a later one, and the     *)
(* steps of the two processes interleave freely.                           *)

\* lines 164-165 in the second process: snapshot = load_snapshot(func_name, i)
PeerLoadSnapshot(func_name, i, func_args) ==
    /\ peer.pc = "idle"
    /\ peer' = [peer EXCEPT !.pc = "check_snapshot", !.function = func_name,
                            !.test_index = i, !.arguments = func_args,
                            !.loaded = load_snapshot(snapshots, func_name, i)]
    /\ UNCHANGED <<model, lru, cache, provider_calls, hist, snapshots, registry, reg_log, run,
                   exec_log, nlu, match_log>>

\* lines 166-182 in the second process
PeerCheckSnapshot ==
    /\ peer.pc = "check_snapshot"
    /\ LET current_snapshot == [function |-> peer.function, arguments |-> peer.arguments]
       IN /\ snapshots' = StoreAfterCheck(snapshots, peer.loaded, peer.function,
                                          peer.test_index, current_snapshot)
          /\ peer' = [peer EXCEPT
                        !.pc = "done",
                        !.snapshot_status =
                            IF peer.loaded = Absent THEN "saved"
                            ELSE IF JsonLoad(peer.loaded) # current_snapshot THEN "mismatch"
                            ELSE "match"]
    /\ UNCHANGED <<model, lru, cache, provider_calls, hist, registry, reg_log, run, exec_log, nlu,
                   match_log>>

\* the first process makes one run
NextConcurrent ==
    \/ RunNotOver /\ NextRunner
    \/ \E i \in 1..MaxTests, func_args \in {ArgsMinsk, ArgsParis} :
          PeerLoadSnapshot("f", i, func_args)
    \/ PeerCheckSnapshot

SpecConcurrent == Init /\ [][NextConcurrent]_vars

----------------------------------------------------------------------------
(* A claim about concurrent runs (SpecConcurrent) *)

PeerKey == <<peer.function, peer.test_index>>
PeerObserved == [function |-> peer.function, arguments |-> peer.arguments]

\* both processes have read the snapshot file of the same key and neither
\* has written or compared yet
BothReading ==
    /\ run.pc = "check_snapshot"
    /\ peer.pc = "check_snapshot"
    /\ CheckedKey = PeerKey

\* both processes reported "saved" for the same (function_name, test_index)
BothSaved ==
    /\ peer.snapshot_status = "saved"
    /\ \E i \in 1..Len(run.details) :
          /\ run.details[i].snapshot_status = "saved"
          /\ <<run.details[i].actual_function, run.details[i].test_index>> = PeerKey

\* C30: nothing keeps the two processes from both reading "no snapshot" for
\* one key and both writing: each process that reports "saved" has written
\* its own observed call, replacing what the file held; when the two
\* processes are never between read and write of the same key at the same
\* time (single-writer use), they never both report "saved" for a key.
C30_SnapshotRace ==
    /\ ([]~BothReading) => [](~BothSaved)
    /\ [][(/\ (SnapshotChecked /\ Reported.snapshot_status = "saved")
               => FileAt(snapshots', CheckedKey) = JsonDump(Observed))
          /\ (peer'.snapshot_status = "saved" /\ peer.snapshot_status # "saved")
               => FileAt(snapshots', PeerKey') = JsonDump(PeerObserved')]_vars

\* C30 witness: both processes reported "saved" for the same key with
\* different observed calls, and the file holds the call of the second
\* process: its write came last and replaced the one of the first
C30_Witness ==
    /\ BothSaved
    /\ \E i \in 1..Len(run.details) :
          /\ run.details[i].snapshot_status = "saved"
          /\ <<run.details[i].actual_function, run.details[i].test_index>> = PeerKey
          /\ ObservedOf(run.details[i]) # PeerObserved
    /\ FileAt(snapshots, PeerKey) = JsonDump(PeerObserved)

----------------------------------------------------------------------------
(* A claim about refused registrations (SpecRegistry) *)

\* C31: a register_function call that raises leaves the function table and
\* the schema table exactly as they were, and execute for the name of the
\* call does what it did before the call.
C31_FailedRegistrationChangesNothing ==
    [][(/\ reg_log'.n = reg_log.n + 1
        /\ reg_log'.op = "register_function"
        /\ reg_log'.raised)
       => /\ registry'.functions = registry.functions
          /\ registry'.schemas = registry.schemas
          /\ execute(registry', reg_log'.name, ArgsMinsk)
                = execute(registry, reg_log'.name, ArgsMinsk)]_vars

\* C31 witness: forecast was registered as "g"; then a callable of two
\* parameters, and a descriptor without properties, were refused under the
\* name "g", and "g" is still forecast with its descriptor
C31_Witness ==
    /\ Registered
    /\ reg_log.raised
    /\ reg_log.name = "g"
    /\ reg_log.function = TwoArguments
    /\ reg_log.n = 3
    /\ "g" \in DOMAIN registry.functions
    /\ registry.functions["g"].func = Forecast
    /\ registry.schemas["g"] = SchemaG
    /\ execute(registry, "g", ArgsMinsk).value = Forecast.result

----------------------------------------------------------------------------
(* A claim about failed provider requests (SpecClient) *)

\* call i of the history ended in the except branch: the provider raised or
\* json.loads rejected the payload of a tool-call record
FailedCall(i) == hist[i].invoked /\ hist[i].result.kind = "error"

\* call i was made with use_cache=True and call i + 1 repeats it: the same
\* query and descriptor list, again with use_cache=True
RetryOf(i) ==
    /\ hist[i].use_cache
    /\ hist[i + 1].use_cache
    /\ hist[i + 1].q = hist[i].q
    /\ hist[i + 1].fs = hist[i].fs

----------------------------------------------------------------------------
(* A claim about the per-function statistics (SpecNlu) *)

\* the sum of called over the function names of a set
RECURSIVE SumCalled(_, _)
SumCalled(function_stats, names) ==
    IF names = {} THEN 0
    ELSE LET f == CHOOSE n \in names : TRUE
         IN function_stats[f].called + SumCalled(function_stats, names \ {f})

====
